---------------------------- MODULE Spec2Model ----------------------------
(***************************************************************************)
(* A model of BumbleBase: the transaction manager (two-phase locking over  *)
(* a lock manager of reader/writer locks, with a waits-for graph), and the *)
(* write-ahead log with checkpoint and crash recovery.                     *)
(*                                                                         *)
(* A resource is a (table, key) pair; the model has one table, so a        *)
(* resource is a key.  A client is a connection (a goroutine running the   *)
(* REPL); it issues its calls one after another.                           *)
(***************************************************************************)
EXTENDS Integers, Sequences, FiniteSets, TLC

(***************************************************************************)
(* Bounds of the model.                                                    *)
(***************************************************************************)
\* Lock calls one client issues in a free run.
MaxCalls == 2
\* Transactions one client begins in a free run.
MaxBegin == 1
\* Edges the graph exerciser puts into a graph.
MaxEdges == 4
\* Insert, update and delete statements one client issues.
MaxStmts == 1
\* Abort commands one client issues.
MaxAbort == 1
\* Checkpoint commands in a run.
MaxCkpt == 1
\* Crashes (each followed by a restart) in a run.
MaxCrash == 2

Clients == {"A", "B"}
Keys == {0, 1}
NoClient == "none"

\* LockType (R_LOCK, W_LOCK).
R_LOCK == "R"
W_LOCK == "W"
LockType == {R_LOCK, W_LOCK}
NoLock == "none"

VARIABLES
    \* ---- TransactionManager
    transactions,   \* tm.transactions: the clients that have a Transaction
    resources,      \* t.resources of each client's Transaction: key -> LockType
    epoch,          \* number of Transaction objects a client has created so far
    edges,          \* tm.pGraph.edges (a slice of Edge{from, to})
    tmReaders,      \* tm.tmMtx: read holds, per client
    tmWriter,       \* tm.tmMtx: the writer that has announced itself (or holds it)
    \* ---- LockManager: one sync.RWMutex per resource
    rwOwner,        \* writers that passed rw.w (waiting for readers, or holding)
    rwWriters,      \* writers inside the lock
    rwReaders,      \* readers inside the lock
    rwBlocked,      \* readers that arrived behind a writer and wait for its Unlock
    \* ---- each client's call in progress
    pc,             \* where the client's current call stands
    req,            \* the Lock call's arguments
    conf,           \* conflictT: the transactions discoverTransactions returned
    added,          \* how many of conf have an edge in the graph (deferred removals)
    result,         \* what the client's last call returned
    calls,          \* Lock calls issued so far
    scripted,       \* TRUE when the clients follow script
    script,         \* the commands each client has left to issue
    \* ---- graph exerciser (the deadlock unit tests)
    detected        \* the last DetectCycle result, "none" before the first

VARIABLES
    \* ---- files
    log,            \* db.log: the records written so far (every write is synced)
    dbDisk,         \* the table file in the data folder, as of its last flush
    snapshot,       \* the <data>-recovery/ folder
    \* ---- Database and RecoveryManager of the running process
    status,         \* "running", "down", or how Recover ended: "failed", "hung", "panic"
    mem,            \* the table as the process sees it (pages in memory)
    txStack,        \* rm.txStack: per client, whether it has an entry and the entry
    ckpt,           \* the step a running Checkpoint has reached, "none" if none runs
    \* ---- each client's REPL handler in progress
    hpc,            \* where the handler stands
    hreq,           \* the Edit record of the statement it executes
    undoIx,         \* Rollback: index of the next record of logs to look at
    stmts,          \* statements issued so far
    aborts,         \* abort commands issued so far
    ckpts,          \* checkpoints started so far
    crashes,        \* crashes so far
    \* ---- history, for stating the properties
    durable,        \* the rows as the transactions committed so far leave them
    work,           \* per client, the changes its running transaction has applied
    pre,            \* per client: the rows at its Start and, per key, before its first change
    lastApplied,    \* per client, the Edit record of the last change its handler applied
    crashedIn,      \* the step of Checkpoint the first crash interrupted
    recovered       \* the table after the previous successful Recover

recVars == <<log, dbDisk, snapshot, status, mem, txStack, ckpt, hpc, hreq, undoIx,
             stmts, aborts, ckpts, crashes, durable, work, pre, lastApplied, crashedIn,
             recovered>>

tmVars == <<transactions, resources, epoch, tmReaders, tmWriter,
            rwOwner, rwWriters, rwReaders, rwBlocked,
            pc, req, conf, added, result, calls, scripted, script>>
VARIABLES
    \* ---- LockManager, where the calls of Unlock are followed
    lmMtx,          \* lm.lmMtx: the client that holds it, NoClient if free
    locks           \* lm.locks: the resources that have an RWMutex in the map

lmVars == <<lmMtx, locks>>
\* The state of the database process outside the indexes.
dbVars == <<tmVars, edges, detected, recVars, lmVars>>

(***************************************************************************)
(* The B+ tree index: the pages of its pager, the latch of each page and   *)
(* of the super node, and the goroutines working on the tree.              *)
(***************************************************************************)
VARIABLES
    pages,          \* the nodes of the tree; page number pn is pages[pn + 1]
    latch,          \* per page number, and for SUPER_NODE: the goroutine inside WLock
    thr,            \* per goroutine: its operation and where it is in it
    oracle,         \* per key, the value of the entry the operations so far leave
    ret             \* what the last operation returned

btVars == <<pages, latch, thr, oracle, ret>>

(***************************************************************************)
(* The hash index: the directory of the table, the bucket pages of its     *)
(* pager, the lock of the table and the goroutines working on the table.   *)
(***************************************************************************)
VARIABLES
    hashTable,      \* HashTable: depth and buckets, the page number per hash
    bucketPages,    \* the buckets; page number pn is bucketPages[pn + 1]
    rwlock,         \* HashTable.rwlock: the writer and the readers inside it
    hthr,           \* per goroutine: its call, where it is in it, what it got
    xxhash,         \* per key hashed so far: what xxhash.Sum64 makes of it
    metaFile        \* the pages of the .meta file of the index, on disk

hashVars == <<hashTable, bucketPages, rwlock, hthr, xxhash, metaFile>>

(***************************************************************************)
(* A pager on its own: its frames and lists, its file, and what its        *)
(* callers hold and have seen.                                             *)
(***************************************************************************)
VARIABLES
    pager,          \* Pager: nPages, the three lists, the page table, the frames
    pagerFile,      \* the file of the pager: the content of each page on disk
    pagerRet,       \* what the last call on the pager returned
    pagerLog        \* what the callers hold and did: pins, writes, order of use

pagerVars == <<pager, pagerFile, pagerRet, pagerLog>>
idxVars == <<btVars, hashVars, pagerVars>>
vars == <<dbVars, idxVars>>

\* No pager is under test.
NoPager == pager = <<>> /\ pagerFile = <<>> /\ pagerRet = <<>> /\ pagerLog = <<>>

\* No hash index is open.
NoHash ==
    /\ hashTable = <<>>
    /\ bucketPages = <<>>
    /\ rwlock = <<>>
    /\ hthr = <<>>
    /\ xxhash = <<>>
    /\ metaFile = <<>>

\* The map of the lock manager and its mutex are not followed.
NoLm == lmMtx = <<>> /\ locks = <<>>

\* No index is open.
NoIndex ==
    /\ NoLm
    /\ pages = <<>>
    /\ latch = <<>>
    /\ thr = <<>>
    /\ oracle = <<>>
    /\ ret = <<>>
    /\ NoHash
    /\ NoPager

(***************************************************************************)
(* Deadlock graph (deadlock.go).                                           *)
(***************************************************************************)
\* A Transaction object: the client and which of its transactions it is.
Tx(c) == <<c, epoch[c]>>
Edge(f, t) == [from |-> f, to |-> t]

MinOf(S) == CHOOSE x \in S : \A y \in S : x <= y

\* g.edges = append(g.edges, Edge{from, to})
AddEdge(g, f, t) == Append(g, Edge(f, t))

\* l[i] = l[len(l)-1]; return l[:len(l)-1]
removeEdge(l, i) ==
    LET n == Len(l) IN [j \in 1..(n - 1) |-> IF j = i THEN l[n] ELSE l[j]]

\* A RemoveEdge that finds no edge.
RemoveEdgeNone(g, f, t) == g

\* Removes the first edge equal to {from, to}; "edge not found" changes nothing.
RemoveEdge(g, f, t) ==
    LET hits == {i \in 1..Len(g) : g[i] = Edge(f, t)} IN
    IF hits = {} THEN g ELSE removeEdge(g, MinOf(hits))

RECURSIVE dfs(_, _, _)
\* Follows the first edge that leaves `from`, and only that one.
dfs(g, from, seen) ==
    LET out == {i \in 1..Len(g) : g[i].from = from} IN
    IF out = {} THEN FALSE
    ELSE LET e == g[MinOf(out)] IN
         IF \E j \in 1..Len(seen) : seen[j] = e.to THEN TRUE
         ELSE dfs(g, e.to, Append(seen, e.from))

DetectCycle(g) == IF Len(g) = 0 THEN FALSE ELSE dfs(g, g[1].from, <<>>)


(***************************************************************************)
(* Lock manager (lock.go): a map Resource -> *sync.RWMutex.                *)
(*                                                                         *)
(* sync.RWMutex: Lock() takes the internal writer mutex rw.w, announces    *)
(* the writer (readers arriving from then on block) and waits for the      *)
(* readers inside to leave; Unlock() lets the blocked readers in and       *)
(* releases rw.w.                                                          *)
(***************************************************************************)
\* A lock manager that takes the read side of the lock whatever type is asked.
lmSideRead(lType) == R_LOCK

\* switch lType { case R_LOCK: lock.RLock(); case W_LOCK: lock.Lock() }
lmSide(lType) == IF lType = R_LOCK THEN R_LOCK ELSE W_LOCK

\* LockManager.Unlock(r, lType) by client c, applied to the four lock fields.
lmUnlock(st, c, r, lType) ==
    IF lmSide(lType) = R_LOCK
    THEN [st EXCEPT !.readers[r] = @ \ {c}]
    ELSE [st EXCEPT !.owner[r] = @ \ {c},
                    !.writers[r] = @ \ {c},
                    !.readers[r] = @ \cup st.blocked[r],
                    !.blocked[r] = {}]

RECURSIVE lmUnlockAll(_, _, _)
\* for r, lType := range t.resources { tm.lm.Unlock(r, lType) }
lmUnlockAll(st, c, rs) ==
    IF rs = {} THEN st
    ELSE LET r == CHOOSE x \in rs : TRUE IN
         lmUnlockAll(lmUnlock(st, c, r, resources[c][r]), c, rs \ {r})

lmState == [owner |-> rwOwner, writers |-> rwWriters,
            readers |-> rwReaders, blocked |-> rwBlocked]

(***************************************************************************)
(* Transaction manager (transaction.go).                                   *)
(***************************************************************************)
Cmd(op, k, m) == [op |-> op, key |-> k, mode |-> m]

\* The command a client may issue next: any in a free run, the head of its
\* script in a scripted one.
Allowed(c, cmd) ==
    IF scripted THEN script[c] # <<>> /\ Head(script[c]) = cmd ELSE TRUE
Issue(c) ==
    script' = IF scripted THEN [script EXCEPT ![c] = Tail(@)] ELSE script

NoReaders == \A c \in Clients : tmReaders[c] = 0
Held(c) == {r \in Keys : resources[c][r] # NoLock}
NoResources == [r \in Keys |-> NoLock]

Perms(S) ==
    {s \in [1..Cardinality(S) -> S] : \A i, j \in DOMAIN s : i # j => s[i] # s[j]}

\* The transactions that hold r and conflict with a request of type lType.
discoverTransactions(r, lType) ==
    {Tx(t) : t \in {u \in transactions :
                      /\ resources[u][r] # NoLock
                      /\ (resources[u][r] = W_LOCK \/ lType = W_LOCK)}}

\* Begin: tm.tmMtx.Lock() announces the writer.
BeginCall(c) ==
    /\ pc[c] = "idle"
    /\ Allowed(c, Cmd("begin", 0, NoLock))
    /\ ~scripted => epoch[c] < MaxBegin
    /\ tmWriter = NoClient
    /\ tmWriter' = c
    /\ pc' = [pc EXCEPT ![c] = "begin"]
    /\ Issue(c)
    /\ UNCHANGED <<transactions, resources, epoch, tmReaders, rwOwner, rwWriters,
                   rwReaders, rwBlocked, req, conf, added, result, calls,
                   scripted, edges, detected>>

\* Begin, once the readers of tm.tmMtx have left.
BeginBody(c) ==
    /\ pc[c] = "begin"
    /\ tmWriter = c
    /\ NoReaders
    /\ IF c \in transactions
       THEN UNCHANGED <<transactions, resources, epoch>>
       ELSE /\ transactions' = transactions \cup {c}
            /\ resources' = [resources EXCEPT ![c] = NoResources]
            /\ epoch' = [epoch EXCEPT ![c] = @ + 1]
    /\ tmWriter' = NoClient
    /\ pc' = [pc EXCEPT ![c] = "idle"]
    /\ UNCHANGED <<tmReaders, rwOwner, rwWriters, rwReaders, rwBlocked, req, conf,
                   added, result, calls, scripted, script, edges, detected>>

\* Commit: tm.tmMtx.Lock() announces the writer.
CommitCall(c) ==
    /\ pc[c] = "idle"
    /\ Allowed(c, Cmd("commit", 0, NoLock))
    /\ ~scripted => c \in transactions
    /\ tmWriter = NoClient
    /\ tmWriter' = c
    /\ pc' = [pc EXCEPT ![c] = "commit"]
    /\ Issue(c)
    /\ UNCHANGED <<transactions, resources, epoch, tmReaders, rwOwner, rwWriters,
                   rwReaders, rwBlocked, req, conf, added, result, calls,
                   scripted, edges, detected>>

\* Commit, once the readers of tm.tmMtx have left: unlock every resource with
\* its recorded type, delete the transaction.
CommitBody(c) ==
    /\ pc[c] = "commit"
    /\ tmWriter = c
    /\ NoReaders
    /\ IF c \in transactions
       THEN LET st == lmUnlockAll(lmState, c, Held(c)) IN
            /\ rwOwner' = st.owner
            /\ rwWriters' = st.writers
            /\ rwReaders' = st.readers
            /\ rwBlocked' = st.blocked
            /\ transactions' = transactions \ {c}
            /\ resources' = [resources EXCEPT ![c] = NoResources]
       ELSE UNCHANGED <<rwOwner, rwWriters, rwReaders, rwBlocked, transactions,
                        resources>>
    /\ tmWriter' = NoClient
    /\ pc' = [pc EXCEPT ![c] = "idle"]
    /\ UNCHANGED <<epoch, tmReaders, req, conf, added, result, calls, scripted,
                   script, edges, detected>>

\* Lock: the first tm.tmMtx.RLock().
LockCall(c, k, m) ==
    /\ pc[c] = "idle"
    /\ Allowed(c, Cmd("lock", k, m))
    /\ ~scripted => calls[c] < MaxCalls
    /\ tmWriter = NoClient
    /\ tmReaders' = [tmReaders EXCEPT ![c] = @ + 1]
    /\ req' = [req EXCEPT ![c] = [key |-> k, mode |-> m]]
    /\ calls' = IF scripted THEN calls ELSE [calls EXCEPT ![c] = @ + 1]
    /\ result' = [result EXCEPT ![c] = "none"]
    /\ pc' = [pc EXCEPT ![c] = "l_look"]
    /\ Issue(c)
    /\ UNCHANGED <<transactions, resources, epoch, tmWriter, rwOwner, rwWriters,
                   rwReaders, rwBlocked, conf, added, scripted, edges, detected>>

\* A Lock that lets a transaction ask again for whatever it holds.
relockAny(oldLockType, lType) == "ok"

\* Lock of a resource the transaction holds with oldLockType.
relock(oldLockType, lType) ==
    IF oldLockType = lType \/ (oldLockType = W_LOCK /\ lType = R_LOCK) THEN "ok"
    ELSE IF oldLockType = R_LOCK /\ lType = W_LOCK THEN "upgrade"
    ELSE "ok"

\* Lock: GetTransaction (a second tm.tmMtx.RLock(), released at once), the
\* look-up of r in the transaction's own resources, discoverTransactions.
LockLookup(c) ==
    /\ pc[c] = "l_look"
    /\ tmWriter = NoClient
    /\ LET k == req[c].key
           m == req[c].mode IN
       IF c \notin transactions
       THEN \* return nil, tm.tmMtx still read-locked
            /\ result' = [result EXCEPT ![c] = "ok"]
            /\ pc' = [pc EXCEPT ![c] = "idle"]
            /\ UNCHANGED <<tmReaders, conf, added>>
       ELSE IF resources[c][k] # NoLock
       THEN /\ tmReaders' = [tmReaders EXCEPT ![c] = @ - 1]
            /\ result' = [result EXCEPT ![c] = relock(resources[c][k], m)]
            /\ pc' = [pc EXCEPT ![c] = "idle"]
            /\ UNCHANGED <<conf, added>>
       ELSE \E cf \in Perms(discoverTransactions(k, m)) :
            /\ conf' = [conf EXCEPT ![c] = cf]
            /\ added' = [added EXCEPT ![c] = 0]
            /\ pc' = [pc EXCEPT ![c] = IF cf = <<>> THEN "l_detect" ELSE "l_add"]
            /\ UNCHANGED <<tmReaders, result>>
    /\ UNCHANGED <<transactions, resources, epoch, tmWriter, rwOwner, rwWriters,
                   rwReaders, rwBlocked, req, calls, scripted, script, edges,
                   detected>>

\* Lock: tm.pGraph.AddEdge(t, ct); defer tm.pGraph.RemoveEdge(t, ct)
LockAddEdge(c) ==
    /\ pc[c] = "l_add"
    /\ edges' = AddEdge(edges, Tx(c), conf[c][added[c] + 1])
    /\ added' = [added EXCEPT ![c] = @ + 1]
    /\ pc' = [pc EXCEPT ![c] =
                 IF added[c] + 1 = Len(conf[c]) THEN "l_detect" ELSE "l_add"]
    /\ UNCHANGED <<transactions, resources, epoch, tmReaders, tmWriter, rwOwner,
                   rwWriters, rwReaders, rwBlocked, req, conf, result, calls,
                   scripted, script, detected>>

\* Lock: hasCycle := tm.pGraph.DetectCycle(); tm.tmMtx.RUnlock()
LockDetect(c) ==
    /\ pc[c] = "l_detect"
    /\ tmReaders' = [tmReaders EXCEPT ![c] = @ - 1]
    /\ IF DetectCycle(edges)
       THEN /\ result' = [result EXCEPT ![c] = "deadlock"]
            /\ pc' = [pc EXCEPT ![c] = IF added[c] = 0 THEN "idle" ELSE "l_rm"]
       ELSE /\ pc' = [pc EXCEPT ![c] = "l_lm"]
            /\ UNCHANGED result
    /\ UNCHANGED <<transactions, resources, epoch, tmWriter, rwOwner, rwWriters,
                   rwReaders, rwBlocked, req, conf, added, calls, scripted, script,
                   edges, detected>>

\* Lock: tm.lm.Lock(r, lType), the read side.
LmRLock(c) ==
    /\ pc[c] = "l_lm"
    /\ lmSide(req[c].mode) = R_LOCK
    /\ LET k == req[c].key IN
       IF rwOwner[k] = {}
       THEN /\ rwReaders' = [rwReaders EXCEPT ![k] = @ \cup {c}]
            /\ pc' = [pc EXCEPT ![c] = "l_rec"]
            /\ UNCHANGED rwBlocked
       ELSE /\ rwBlocked' = [rwBlocked EXCEPT ![k] = @ \cup {c}]
            /\ pc' = [pc EXCEPT ![c] = "l_rwait"]
            /\ UNCHANGED rwReaders
    /\ UNCHANGED <<transactions, resources, epoch, tmReaders, tmWriter, rwOwner,
                   rwWriters, req, conf, added, result, calls, scripted, script,
                   edges, detected>>

\* A reader that was blocked behind a writer goes on after the writer's Unlock.
LmRWake(c) ==
    /\ pc[c] = "l_rwait"
    /\ c \in rwReaders[req[c].key]
    /\ pc' = [pc EXCEPT ![c] = "l_rec"]
    /\ UNCHANGED <<transactions, resources, epoch, tmReaders, tmWriter, rwOwner,
                   rwWriters, rwReaders, rwBlocked, req, conf, added, result, calls,
                   scripted, script, edges, detected>>

\* Lock: tm.lm.Lock(r, lType), the write side: rw.w taken, writer announced.
LmWLock(c) ==
    /\ pc[c] = "l_lm"
    /\ lmSide(req[c].mode) = W_LOCK
    /\ rwOwner[req[c].key] = {}
    /\ rwOwner' = [rwOwner EXCEPT ![req[c].key] = {c}]
    /\ pc' = [pc EXCEPT ![c] = "l_wwait"]
    /\ UNCHANGED <<transactions, resources, epoch, tmReaders, tmWriter, rwWriters,
                   rwReaders, rwBlocked, req, conf, added, result, calls, scripted,
                   script, edges, detected>>

\* The announced writer enters once the readers inside have left.
LmWAcquire(c) ==
    /\ pc[c] = "l_wwait"
    /\ rwReaders[req[c].key] = {}
    /\ rwWriters' = [rwWriters EXCEPT ![req[c].key] = @ \cup {c}]
    /\ pc' = [pc EXCEPT ![c] = "l_rec"]
    /\ UNCHANGED <<transactions, resources, epoch, tmReaders, tmWriter, rwOwner,
                   rwReaders, rwBlocked, req, conf, added, result, calls, scripted,
                   script, edges, detected>>

\* Lock: t.GetResources()[r] = lType, return nil.
LockRecord(c) ==
    /\ pc[c] = "l_rec"
    /\ resources' = [resources EXCEPT ![c][req[c].key] = req[c].mode]
    /\ result' = [result EXCEPT ![c] = "ok"]
    /\ pc' = [pc EXCEPT ![c] = IF added[c] = 0 THEN "idle" ELSE "l_rm"]
    /\ UNCHANGED <<transactions, epoch, tmReaders, tmWriter, rwOwner, rwWriters,
                   rwReaders, rwBlocked, req, conf, added, calls, scripted, script,
                   edges, detected>>

\* Lock returns: the deferred RemoveEdge calls run, last added first.
LockRemoveEdge(c) ==
    /\ pc[c] = "l_rm"
    /\ edges' = RemoveEdge(edges, Tx(c), conf[c][added[c]])
    /\ added' = [added EXCEPT ![c] = @ - 1]
    /\ pc' = [pc EXCEPT ![c] = IF added[c] = 1 THEN "idle" ELSE "l_rm"]
    /\ UNCHANGED <<transactions, resources, epoch, tmReaders, tmWriter, rwOwner,
                   rwWriters, rwReaders, rwBlocked, req, conf, result, calls,
                   scripted, script, detected>>

LockSteps(c) ==
    \/ LockLookup(c)
    \/ LockAddEdge(c)
    \/ LockDetect(c)
    \/ LmWLock(c)
    \/ LmWAcquire(c)
    \/ LockRecord(c)
    \/ LockRemoveEdge(c)

InitTM ==
    /\ transactions = {}
    /\ resources = [c \in Clients |-> NoResources]
    /\ epoch = [c \in Clients |-> 0]
    /\ edges = <<>>
    /\ tmReaders = [c \in Clients |-> 0]
    /\ tmWriter = NoClient
    /\ rwOwner = [r \in Keys |-> {}]
    /\ rwWriters = [r \in Keys |-> {}]
    /\ rwReaders = [r \in Keys |-> {}]
    /\ rwBlocked = [r \in Keys |-> {}]
    /\ pc = [c \in Clients |-> "idle"]
    /\ req = [c \in Clients |-> [key |-> 0, mode |-> R_LOCK]]
    /\ conf = [c \in Clients |-> <<>>]
    /\ added = [c \in Clients |-> 0]
    /\ result = [c \in Clients |-> "none"]
    /\ calls = [c \in Clients |-> 0]
    /\ scripted = FALSE
    /\ script = [c \in Clients |-> <<>>]
    /\ detected = "none"

(***************************************************************************)
(* Write-ahead log (log.go) and tables.  There is one table; its rows map  *)
(* each key to a value, Absent for a key the table does not hold.          *)
(***************************************************************************)
Values == {1, 2}
\* The keys the statements of the recovery REPL's clients use.
EditKeys == {1}
Absent == 0
INSERT_ACTION == "INSERT"
UPDATE_ACTION == "UPDATE"
DELETE_ACTION == "DELETE"
Action == {INSERT_ACTION, UPDATE_ACTION, DELETE_ACTION}

Rec(t, id, act, k, o, n, ids) ==
    [t |-> t, id |-> id, act |-> act, key |-> k, old |-> o, new |-> n, ids |-> ids]
tableLog == Rec("table", NoClient, "", 0, 0, 0, {})
editLog(id, act, k, o, n) == Rec("edit", id, act, k, o, n, {})
startLog(id) == Rec("start", id, "", 0, 0, 0, {})
commitLog(id) == Rec("commit", id, "", 0, 0, 0, {})
checkpointLog(ids) == Rec("checkpoint", NoClient, "", 0, 0, 0, ids)
NoRec == Rec("none", NoClient, "", 0, 0, 0, {})

\* A log writer that keeps the record of an Edit in its buffer.
EditUnsynced(l, rec) == l

\* writeToBuffer: fd.WriteString(s); fd.Sync()
writeToBuffer(l, rec) == Append(l, rec)

\* RecoveryManager.Edit, as far as the log file goes.
Edit(l, rec) == writeToBuffer(l, rec)

NoRows == [k \in Keys |-> Absent]
NoFile == [ex |-> FALSE, rows |-> NoRows]
NewTable == [ex |-> TRUE, rows |-> NoRows]

\* The handlers' first check: table.Find(key) must fail for an insert and
\* succeed for an update or a delete.
PreOk(tbl, act, k) ==
    /\ tbl.ex
    /\ IF act = INSERT_ACTION THEN tbl.rows[k] = Absent ELSE tbl.rows[k] # Absent

\* The Edit record a handler writes for a statement.
EditOf(id, tbl, act, k, v) ==
    editLog(id, act, k,
            IF act = INSERT_ACTION THEN 0 ELSE tbl.rows[k],
            IF act = DELETE_ACTION THEN 0 ELSE v)

\* The record a handler writes to mark its statement as a no-op.
NoOpOf(rec) ==
    editLog(rec.id,
            IF rec.act = INSERT_ACTION THEN DELETE_ACTION
            ELSE IF rec.act = DELETE_ACTION THEN INSERT_ACTION ELSE UPDATE_ACTION,
            rec.key, rec.new, rec.old)

\* db.HandleInsert / HandleUpdate / HandleDelete: does the statement succeed?
DbOk(tbl, rec) ==
    /\ tbl.ex
    /\ rec.act = INSERT_ACTION => tbl.rows[rec.key] = Absent
    /\ rec.act = UPDATE_ACTION => tbl.rows[rec.key] # Absent

\* ... and the table it leaves.
DbApply(tbl, rec) ==
    [tbl EXCEPT !.rows[rec.key] = IF rec.act = DELETE_ACTION THEN Absent ELSE rec.new]

\* Undo: the statement that inverts an Edit record.
UndoOf(rec) ==
    [act |-> IF rec.act = INSERT_ACTION THEN DELETE_ACTION
             ELSE IF rec.act = DELETE_ACTION THEN INSERT_ACTION ELSE UPDATE_ACTION,
     key |-> rec.key, val |-> rec.old]

(***************************************************************************)
(* Recovery at startup (reader.go, recovery.go).  The server does not      *)
(* accept connections before Recover has returned, so Prime and Recover    *)
(* run alone, as one step of the model.                                    *)
(***************************************************************************)
RECURSIVE scanBack(_, _, _, _, _)
\* getRelevantStrings: the backward scan; i is the next line to read.
scanBack(l, i, hit, txs, cnt) ==
    IF i = 0 THEN [from |-> 1, pos |-> 0]
    ELSE LET line == l[i]
             txs1 == IF hit /\ line.t = "start" THEN txs \ {line.id} ELSE txs
             isCk == ~hit /\ line.t = "checkpoint"
             txs2 == IF isCk THEN line.ids ELSE txs1
             cnt2 == IF isCk THEN 0 ELSE cnt + 1
         IN IF (hit \/ isCk) /\ txs2 = {} THEN [from |-> i, pos |-> cnt2]
            ELSE scanBack(l, i - 1, hit \/ isCk, txs2, cnt2)

\* readLogs: the records Recover works on and the position of the checkpoint
\* among them (counted from 0).  The scan first reads the empty line that
\* follows the last record.
readLogs(l) ==
    IF Len(l) = 0 THEN [logs |-> <<>>, pos |-> 0]
    ELSE LET r == scanBack(l, Len(l), FALSE, {}, 1) IN
         [logs |-> SubSeq(l, r.from, Len(l)), pos |-> r.pos]

\* tm.Commit inside Recover: the locks of id are released.
recRelease(held, id) == [k \in Keys |-> IF held[k] = id THEN NoClient ELSE held[k]]

\* Redo of one record.
Redo(rs, rec) ==
    IF rec.t = "table"
    THEN IF rs.tbl.ex THEN [rs EXCEPT !.st = "failed"]
         ELSE [rs EXCEPT !.tbl = NewTable]
    ELSE IF ~rs.tbl.ex THEN [rs EXCEPT !.st = "failed"]
         ELSE [rs EXCEPT !.tbl = DbApply(rs.tbl, rec)]

RECURSIVE redoPass(_, _, _)
\* Recover, the forward pass from logs[i].
redoPass(rs, logs, i) ==
    IF i > Len(logs) \/ rs.st # "ok" THEN rs
    ELSE LET rec == logs[i]
             nx == IF rec.t = "checkpoint"
                   THEN [rs EXCEPT !.undo = @ \cup rec.ids, !.begun = @ \cup rec.ids]
                   ELSE IF rec.t = "start"
                   THEN [rs EXCEPT !.undo = @ \cup {rec.id}, !.begun = @ \cup {rec.id}]
                   ELSE IF rec.t = "commit"
                   THEN [rs EXCEPT !.undo = @ \ {rec.id}, !.begun = @ \ {rec.id}]
                   ELSE Redo(rs, rec)
         IN redoPass(nx, logs, i + 1)

\* An Undo that changes the table and writes no Edit record for the change.
UndoSilent(rs, rec) ==
    LET u == UndoOf(rec)
        e == EditOf(rec.id, rs.tbl, u.act, rec.key, u.val) IN
    IF ~PreOk(rs.tbl, u.act, rec.key) THEN [rs EXCEPT !.st = "failed"]
    ELSE [rs EXCEPT !.tbl = DbApply(rs.tbl, e)]

\* Undo of one Edit record: the recovery-layer handler of the inverse
\* statement, run for the transaction that wrote the record.
Undo(rs, rec) ==
    LET u == UndoOf(rec)
        k == rec.key
        e == EditOf(rec.id, rs.tbl, u.act, k, u.val) IN
    IF ~PreOk(rs.tbl, u.act, k) THEN [rs EXCEPT !.st = "failed"]
    ELSE IF rs.held[k] \notin {NoClient, rec.id}
    THEN [rs EXCEPT !.log = Edit(@, e),
                    !.st = IF DetectCycle(<<Edge(rec.id, rs.held[k])>>)
                           THEN "failed" ELSE "hung"]
    ELSE [rs EXCEPT !.log = Edit(@, e),
                    !.held[k] = rec.id,
                    !.tbl = DbApply(rs.tbl, e)]

RECURSIVE undoPass(_, _, _)
\* Recover, the backward pass: for i := len(logs) - 1; len(undoList) > 0; i--
undoPass(rs, logs, i) ==
    IF rs.undo = {} \/ rs.st # "ok" THEN rs
    ELSE IF i < 1 THEN [rs EXCEPT !.st = "panic"]
    ELSE LET rec == logs[i]
             nx == IF rec.t = "edit" /\ rec.id \in rs.undo THEN Undo(rs, rec)
                   ELSE IF rec.t = "start" /\ rec.id \in rs.undo
                   THEN [rs EXCEPT !.held = recRelease(@, rec.id),
                                   !.begun = @ \ {rec.id},
                                   !.log = writeToBuffer(@, commitLog(rec.id)),
                                   !.undo = @ \ {rec.id}]
                   ELSE rs
         IN undoPass(nx, logs, i - 1)

\* Recover on the table tbl that Prime has opened.
Recover(l, tbl) ==
    LET rd == readLogs(l)
        pos == IF rd.pos >= Len(rd.logs) THEN 0 ELSE rd.pos
        rs0 == [tbl |-> tbl, log |-> l, held |-> [k \in Keys |-> NoClient],
                begun |-> {}, undo |-> {}, st |-> "ok"]
        rs1 == redoPass(rs0, rd.logs, pos + 1)
    IN undoPass(rs1, rd.logs, Len(rd.logs))

\* Prime: the table file the data folder holds once Prime has run.
Prime(snap, disk) == IF snap.dir THEN snap.t ELSE disk

(***************************************************************************)
(* The recovery REPL (recovery_repl.go): each handler writes its log       *)
(* record, then calls the transaction manager, then changes the table.     *)
(* The calls of the transaction manager are the actions above; a handler   *)
(* puts the call it makes into script.                                     *)
(***************************************************************************)
tmRest == <<transactions, resources, epoch, tmReaders, tmWriter, rwOwner,
            rwWriters, rwReaders, rwBlocked, pc, req, conf, added, result, calls,
            scripted, edges, detected>>

NoStack == [has |-> FALSE, logs |-> <<>>]
NoPre == [keys |-> {}, rows |-> NoRows, start |-> NoRows]

\* The client is at its prompt.
AtPrompt(c) ==
    /\ status = "running" /\ crashes = 0
    /\ pc[c] = "idle" /\ script[c] = <<>> /\ hpc[c] = "none"

\* The call of the transaction manager the handler made has returned.
Returned(c) == status = "running" /\ pc[c] = "idle" /\ script[c] = <<>>

\* rm.mtx is free and Checkpoint does not hold the pagers.
RmFree == ckpt = "none"

\* rm.txStack[clientId] = append(rm.txStack[clientId], &log)
Push(stk, rec) == [has |-> TRUE, logs |-> Append(stk.logs, rec)]

RECURSIVE ApplyAll(_, _)
ApplyAll(tbl, recs) ==
    IF recs = <<>> THEN tbl ELSE ApplyAll(DbApply(tbl, Head(recs)), Tail(recs))

RECURSIVE lastEdit(_, _)
\* Rollback: the next Edit record at or below index i, 0 if there is none.
lastEdit(logs, i) ==
    IF i = 0 THEN 0 ELSE IF logs[i].t = "edit" THEN i ELSE lastEdit(logs, i - 1)

\* Rollback of the stack logs: nothing to do, refused, or the loop starts.
RollbackEntry(logs) ==
    IF Len(logs) = 0 \/ logs[1].t # "start" THEN [hpc |-> "none", ix |-> 0]
    ELSE [hpc |-> "rollback", ix |-> Len(logs)]

\* create btree table t
HCreateTable(c) ==
    /\ AtPrompt(c) /\ RmFree
    /\ ~mem.ex
    /\ log' = writeToBuffer(log, tableLog)
    /\ mem' = NewTable
    /\ dbDisk' = NewTable
    /\ UNCHANGED <<tmRest, script, snapshot, status, txStack, ckpt, hpc, hreq, undoIx,
                   stmts, aborts, ckpts, crashes, durable, work, pre, lastApplied,
                   crashedIn, recovered>>

\* transaction begin: rm.Start(clientId), then tm.Begin(clientId)
HStart(c) ==
    /\ AtPrompt(c) /\ RmFree
    /\ c \notin transactions
    /\ epoch[c] < MaxBegin
    /\ log' = writeToBuffer(log, startLog(c))
    /\ txStack' = [txStack EXCEPT ![c] = Push(@, startLog(c))]
    /\ script' = [script EXCEPT ![c] = <<Cmd("begin", 0, NoLock)>>]
    /\ work' = [work EXCEPT ![c] = <<>>]
    /\ pre' = [pre EXCEPT ![c] = [NoPre EXCEPT !.start = mem.rows]]
    /\ UNCHANGED <<tmRest, dbDisk, snapshot, status, mem, ckpt, hpc, hreq, undoIx,
                   stmts, aborts, ckpts, crashes, durable, lastApplied, crashedIn,
                   recovered>>

\* transaction commit: rm.Commit(clientId), then tm.Commit(clientId)
HCommit(c) ==
    /\ AtPrompt(c) /\ RmFree
    /\ c \in transactions
    /\ log' = writeToBuffer(log, commitLog(c))
    /\ txStack' = [txStack EXCEPT ![c] = NoStack]
    /\ script' = [script EXCEPT ![c] = <<Cmd("commit", 0, NoLock)>>]
    /\ durable' = ApplyAll([ex |-> TRUE, rows |-> durable], work[c]).rows
    /\ work' = [work EXCEPT ![c] = <<>>]
    /\ pre' = [pre EXCEPT ![c] = NoPre]
    /\ UNCHANGED <<tmRest, dbDisk, snapshot, status, mem, ckpt, hpc, hreq, undoIx,
                   stmts, aborts, ckpts, crashes, lastApplied, crashedIn, recovered>>

\* insert / update / delete, up to the call of tm.Lock: the check with Find,
\* the Edit record.
HEdit(c, act, k, v) ==
    /\ AtPrompt(c) /\ RmFree
    /\ stmts[c] < MaxStmts
    /\ PreOk(mem, act, k)
    /\ LET e == EditOf(c, mem, act, k, v) IN
       /\ log' = Edit(log, e)
       /\ txStack' = [txStack EXCEPT ![c] = Push(@, e)]
       /\ hreq' = [hreq EXCEPT ![c] = e]
    /\ hpc' = [hpc EXCEPT ![c] = "edit"]
    /\ script' = [script EXCEPT ![c] = <<Cmd("lock", k, W_LOCK)>>]
    /\ stmts' = [stmts EXCEPT ![c] = @ + 1]
    /\ UNCHANGED aborts
    /\ UNCHANGED <<tmRest, dbDisk, snapshot, status, mem, ckpt, undoIx, ckpts,
                   crashes, durable, work, pre, lastApplied, crashedIn, recovered>>

\* insert / update / delete, after tm.Lock: the change of the table, or, when
\* tm.Lock or the table refused, the no-op record, the two records popped
\* from the stack, and Rollback.  The same for a statement that Undo runs.
HApply(c) ==
    /\ Returned(c) /\ RmFree
    /\ hpc[c] \in {"edit", "undo"}
    /\ LET e == hreq[c]
           intx == c \in transactions IN
       IF result[c] = "ok" /\ DbOk(mem, e)
       THEN /\ mem' = DbApply(mem, e)
            /\ lastApplied' = [lastApplied EXCEPT ![c] = e]
            /\ hpc' = [hpc EXCEPT ![c] = IF @ = "undo" THEN "rollback" ELSE "none"]
            /\ durable' = IF intx THEN durable
                          ELSE DbApply([ex |-> TRUE, rows |-> durable], e).rows
            /\ work' = IF intx /\ hpc[c] = "edit"
                       THEN [work EXCEPT ![c] = Append(@, e)] ELSE work
            /\ pre' = IF intx /\ hpc[c] = "edit" /\ e.key \notin pre[c].keys
                      THEN [pre EXCEPT ![c] =
                               [@ EXCEPT !.keys = @ \cup {e.key},
                                         !.rows[e.key] = mem.rows[e.key]]]
                      ELSE pre
            /\ UNCHANGED <<log, txStack, undoIx>>
       ELSE LET logs == SubSeq(txStack[c].logs, 1, Len(txStack[c].logs) - 1)
                rb == RollbackEntry(logs) IN
            /\ log' = Edit(log, NoOpOf(e))
            /\ txStack' = [txStack EXCEPT ![c] = [has |-> TRUE, logs |-> logs]]
            /\ hpc' = [hpc EXCEPT ![c] = rb.hpc]
            /\ undoIx' = [undoIx EXCEPT ![c] = rb.ix]
            /\ UNCHANGED <<mem, lastApplied, durable, work, pre>>
    /\ UNCHANGED <<tmRest, script, dbDisk, snapshot, status, ckpt, hreq, stmts, aborts,
                   ckpts, crashes, crashedIn, recovered>>

\* abort: Rollback(clientId) when the client has a transaction.
HAbort(c) ==
    /\ AtPrompt(c)
    /\ tmWriter = NoClient
    /\ c \in transactions
    /\ aborts[c] < MaxAbort
    /\ aborts' = [aborts EXCEPT ![c] = @ + 1]
    /\ LET rb == RollbackEntry(txStack[c].logs) IN
       /\ hpc' = [hpc EXCEPT ![c] = rb.hpc]
       /\ undoIx' = [undoIx EXCEPT ![c] = rb.ix]
    /\ UNCHANGED <<tmRest, script, log, dbDisk, snapshot, status, mem, txStack, ckpt,
                   hreq, stmts, ckpts, crashes, durable, work, pre, lastApplied,
                   crashedIn, recovered>>

\* Rollback, one turn of its loop: Undo of the next Edit record up to the
\* call of tm.Lock, or, past the last one, the call of tm.Commit.
HRollbackStep(c) ==
    /\ Returned(c) /\ RmFree
    /\ hpc[c] = "rollback"
    /\ LET i == lastEdit(txStack[c].logs, undoIx[c]) IN
       IF i = 0
       THEN /\ script' = [script EXCEPT ![c] = <<Cmd("commit", 0, NoLock)>>]
            /\ hpc' = [hpc EXCEPT ![c] = "rb_commit"]
            /\ undoIx' = [undoIx EXCEPT ![c] = 0]
            /\ UNCHANGED <<log, txStack, hreq>>
       ELSE LET rec == txStack[c].logs[i]
                u == UndoOf(rec) IN
            IF ~PreOk(mem, u.act, rec.key)
            THEN /\ hpc' = [hpc EXCEPT ![c] = "none"]
                 /\ undoIx' = [undoIx EXCEPT ![c] = 0]
                 /\ UNCHANGED <<log, txStack, hreq, script>>
            ELSE LET e == EditOf(c, mem, u.act, rec.key, u.val) IN
                 /\ log' = Edit(log, e)
                 /\ txStack' = [txStack EXCEPT ![c] = Push(@, e)]
                 /\ hreq' = [hreq EXCEPT ![c] = e]
                 /\ hpc' = [hpc EXCEPT ![c] = "undo"]
                 /\ undoIx' = [undoIx EXCEPT ![c] = i - 1]
                 /\ script' = [script EXCEPT ![c] = <<Cmd("lock", rec.key, W_LOCK)>>]
    /\ UNCHANGED <<tmRest, dbDisk, snapshot, status, mem, ckpt, stmts, aborts, ckpts,
                   crashes, durable, work, pre, lastApplied, crashedIn, recovered>>

\* Rollback, after tm.Commit: rm.Commit(clientId)
HRollbackFinish(c) ==
    /\ Returned(c) /\ RmFree
    /\ hpc[c] = "rb_commit"
    /\ log' = writeToBuffer(log, commitLog(c))
    /\ txStack' = [txStack EXCEPT ![c] = NoStack]
    /\ hpc' = [hpc EXCEPT ![c] = "none"]
    /\ work' = [work EXCEPT ![c] = <<>>]
    /\ pre' = [pre EXCEPT ![c] = NoPre]
    /\ UNCHANGED <<tmRest, script, dbDisk, snapshot, status, mem, ckpt, hreq, undoIx,
                   stmts, aborts, ckpts, crashes, durable, lastApplied, crashedIn,
                   recovered>>

(***************************************************************************)
(* Checkpoint, step by step, and the crash that can end the process at     *)
(* any moment.                                                             *)
(***************************************************************************)
\* Checkpoint: rm.mtx taken, LockAllUpdates and FlushAllPages on every table.
CkptFlush(c) ==
    /\ AtPrompt(c) /\ RmFree
    /\ ckpts < MaxCkpt
    /\ ckpt' = "flushed"
    /\ ckpts' = ckpts + 1
    /\ dbDisk' = IF mem.ex THEN mem ELSE dbDisk
    /\ UNCHANGED <<tmVars, edges, detected, log, snapshot, status, mem, txStack, hpc,
                   hreq, undoIx, stmts, aborts, crashes, durable, work, pre, lastApplied,
                   crashedIn, recovered>>

\* Checkpoint: the record, listing the keys of rm.txStack.
CkptLog ==
    /\ status = "running" /\ ckpt = "flushed"
    /\ log' = writeToBuffer(log, checkpointLog({c \in Clients : txStack[c].has}))
    /\ ckpt' = "logged"
    /\ UNCHANGED <<tmVars, edges, detected, dbDisk, snapshot, status, mem, txStack,
                   hpc, hreq, undoIx, stmts, aborts, ckpts, crashes, durable, work, pre,
                   lastApplied, crashedIn, recovered>>

\* Delta: os.RemoveAll(recoveryFolder)
DeltaRemove ==
    /\ status = "running" /\ ckpt = "logged"
    /\ snapshot' = [dir |-> FALSE, t |-> NoFile]
    /\ ckpt' = "removed"
    /\ UNCHANGED <<tmVars, edges, detected, log, dbDisk, status, mem, txStack, hpc,
                   hreq, undoIx, stmts, aborts, ckpts, crashes, durable, work, pre,
                   lastApplied, crashedIn, recovered>>

\* Delta: copy.Copy creates the destination folder ...
DeltaMkdir ==
    /\ status = "running" /\ ckpt = "removed"
    /\ snapshot' = [dir |-> TRUE, t |-> NoFile]
    /\ ckpt' = "copying"
    /\ UNCHANGED <<tmVars, edges, detected, log, dbDisk, status, mem, txStack, hpc,
                   hreq, undoIx, stmts, aborts, ckpts, crashes, durable, work, pre,
                   lastApplied, crashedIn, recovered>>

\* ... and copies the files into it; Checkpoint returns.
DeltaCopy ==
    /\ status = "running" /\ ckpt = "copying"
    /\ snapshot' = [dir |-> TRUE, t |-> dbDisk]
    /\ ckpt' = "none"
    /\ UNCHANGED <<tmVars, edges, detected, log, dbDisk, status, mem, txStack, hpc,
                   hreq, undoIx, stmts, aborts, ckpts, crashes, durable, work, pre,
                   lastApplied, crashedIn, recovered>>

\* The process dies: what it held in memory is gone, the files stay.
Crash ==
    /\ status = "running"
    /\ crashes < MaxCrash
    /\ status' = "down"
    /\ crashes' = crashes + 1
    /\ crashedIn' = IF crashes = 0 THEN ckpt ELSE crashedIn
    /\ ckpt' = "none"
    /\ mem' = NoFile
    /\ txStack' = [c \in Clients |-> NoStack]
    /\ hpc' = [c \in Clients |-> "none"]
    /\ hreq' = [c \in Clients |-> NoRec]
    /\ undoIx' = [c \in Clients |-> 0]
    /\ stmts' = [c \in Clients |-> 0]
    /\ aborts' = [c \in Clients |-> 0]
    /\ ckpts' = 0
    /\ work' = [c \in Clients |-> <<>>]
    /\ pre' = [c \in Clients |-> NoPre]
    /\ lastApplied' = [c \in Clients |-> NoRec]
    /\ transactions' = {}
    /\ resources' = [c \in Clients |-> NoResources]
    /\ epoch' = [c \in Clients |-> 0]
    /\ edges' = <<>>
    /\ tmReaders' = [c \in Clients |-> 0]
    /\ tmWriter' = NoClient
    /\ rwOwner' = [r \in Keys |-> {}]
    /\ rwWriters' = [r \in Keys |-> {}]
    /\ rwReaders' = [r \in Keys |-> {}]
    /\ rwBlocked' = [r \in Keys |-> {}]
    /\ pc' = [c \in Clients |-> "idle"]
    /\ req' = [c \in Clients |-> [key |-> 0, mode |-> R_LOCK]]
    /\ conf' = [c \in Clients |-> <<>>]
    /\ added' = [c \in Clients |-> 0]
    /\ result' = [c \in Clients |-> "none"]
    /\ script' = [c \in Clients |-> <<>>]
    /\ UNCHANGED <<calls, scripted, detected, log, dbDisk, snapshot, durable,
                   recovered>>

\* The process starts again (main.go): Prime, then Recover.
Startup ==
    /\ status = "down"
    /\ LET base == Prime(snapshot, dbDisk)
           r == Recover(log, base) IN
       /\ dbDisk' = base
       /\ mem' = r.tbl
       /\ log' = r.log
       /\ status' = IF r.st = "ok" THEN "running" ELSE r.st
       /\ recovered' = IF recovered.valid THEN recovered
                       ELSE [valid |-> r.st = "ok", undid |-> \E i \in (Len(log) + 1)..Len(r.log) :
                                          r.log[i].t = "edit",
                             tbl |-> r.tbl]
    /\ UNCHANGED <<tmVars, edges, detected, snapshot, txStack, ckpt, hpc, hreq,
                   undoIx, stmts, aborts, ckpts, crashes, durable, work, pre, lastApplied,
                   crashedIn>>

\* A running process at whose prompts no statement is under way: the log l,
\* the table file disk, the table tbl in memory.
FilesAre(l, disk, tbl) ==
    /\ log = l
    /\ dbDisk = disk
    /\ snapshot = [dir |-> TRUE, t |-> NoFile]
    /\ status = "running"
    /\ mem = tbl
    /\ txStack = [c \in Clients |-> NoStack]
    /\ ckpt = "none"
    /\ hpc = [c \in Clients |-> "none"]
    /\ hreq = [c \in Clients |-> NoRec]
    /\ undoIx = [c \in Clients |-> 0]
    /\ stmts = [c \in Clients |-> 0]
    /\ aborts = [c \in Clients |-> 0]
    /\ ckpts = 0
    /\ crashes = 0
    /\ durable = tbl.rows
    /\ work = [c \in Clients |-> <<>>]
    /\ pre = [c \in Clients |-> NoPre]
    /\ lastApplied = [c \in Clients |-> NoRec]
    /\ crashedIn = "none"
    /\ recovered = [valid |-> FALSE, undid |-> FALSE, tbl |-> NoFile]

\* The files after the first start, and a process that has served no command.
InitFiles == FilesAre(<<>>, NoFile, NoFile)

Init == InitTM /\ InitFiles /\ NoIndex

\* Clients of the concurrency REPL: transaction begin / lock / commit.
TMCalls(c) ==
    \/ BeginCall(c)
    \/ BeginBody(c)
    \/ \E k \in Keys, m \in LockType : LockCall(c, k, m)
    \/ LockSteps(c)
    \/ LmRLock(c)
    \/ LmRWake(c)
    \/ CommitCall(c)
    \/ CommitBody(c)

Next ==
    /\ UNCHANGED <<recVars, idxVars, lmVars>>
    /\ \E c \in Clients : TMCalls(c)

Spec == Init /\ [][Next]_vars

(***************************************************************************)
(* Unlock (transaction.go, lock.go), called by the clients as they call    *)
(* Lock: for any resource, with any type.  sync.RWMutex keeps counts, not  *)
(* holders: RUnlock takes one reader out, whoever calls it, Unlock lets    *)
(* the writer go, and each ends the process with a fatal error when the    *)
(* lock is not locked that way.  The map of the lock manager and its mutex *)
(* are followed here; the clients have no Commit to call.                  *)
(***************************************************************************)
\* LockManager.Unlock(r, lType) by client c: the outcomes, each with the
\* lock fields, the holder of lm.lmMtx and the error.
LockManagerUnlock(st, lks, c, r, lType) ==
    IF r \notin lks
    THEN {[st |-> st, mtx |-> c, err |-> "nonexistent"]}
    ELSE IF lType = R_LOCK
    THEN IF st.readers[r] # {}
         THEN {[st |-> [st EXCEPT !.readers[r] = @ \ {v}], mtx |-> NoClient, err |-> "none"] :
                  v \in IF c \in st.readers[r] THEN {c} ELSE st.readers[r]}
         ELSE IF st.blocked[r] # {}
         THEN {[st |-> [st EXCEPT !.blocked[r] = @ \ {v}], mtx |-> NoClient, err |-> "none"] :
                  v \in st.blocked[r]}
         ELSE {[st |-> st, mtx |-> NoClient, err |-> "fatal"]}
    ELSE IF st.owner[r] = {}
         THEN {[st |-> st, mtx |-> NoClient, err |-> "fatal"]}
         ELSE {[st |-> [st EXCEPT !.owner[r] = {},
                                  !.writers[r] = {},
                                  !.readers[r] = @ \cup st.blocked[r],
                                  !.blocked[r] = {}],
                mtx |-> NoClient, err |-> "none"]}

\* Unlock: tm.tmMtx.RLock(), its RUnlock deferred.  The request remembers,
\* for stating the properties, whether the client had a transaction at the
\* call and the type recorded for r.
UnlockCall(c, k, m) ==
    /\ pc[c] = "idle"
    /\ ~scripted
    /\ calls[c] < MaxCalls
    /\ tmWriter = NoClient
    /\ tmReaders' = [tmReaders EXCEPT ![c] = @ + 1]
    /\ req' = [req EXCEPT ![c] = [key |-> k, mode |-> m, had |-> resources[c][k],
                                  open |-> c \in transactions]]
    /\ calls' = [calls EXCEPT ![c] = @ + 1]
    /\ result' = [result EXCEPT ![c] = "none"]
    /\ pc' = [pc EXCEPT ![c] = "u_look"]
    /\ UNCHANGED <<transactions, resources, epoch, tmWriter, rwOwner, rwWriters,
                   rwReaders, rwBlocked, conf, added, scripted, script, edges, detected,
                   lmVars>>

\* Unlock: GetTransaction (a second tm.tmMtx.RLock(), released at once), and
\* delete(t.resources, r).
UnlockDelete(c) ==
    /\ pc[c] = "u_look"
    /\ tmWriter = NoClient
    /\ IF c \notin transactions
       THEN /\ result' = [result EXCEPT ![c] = "ok"]
            /\ pc' = [pc EXCEPT ![c] = "idle"]
            /\ tmReaders' = [tmReaders EXCEPT ![c] = @ - 1]
            /\ UNCHANGED resources
       ELSE /\ resources' = [resources EXCEPT ![c][req[c].key] = NoLock]
            /\ pc' = [pc EXCEPT ![c] = "u_lm"]
            /\ UNCHANGED <<result, tmReaders>>
    /\ UNCHANGED <<transactions, epoch, tmWriter, rwOwner, rwWriters, rwReaders,
                   rwBlocked, req, conf, added, calls, scripted, script, edges,
                   detected, lmVars>>

\* Unlock: tm.lm.Unlock(r, lType), once lm.lmMtx is free, and the return.  A
\* fatal error ends the process, and every call with it.
UnlockLm(c) ==
    /\ pc[c] = "u_lm"
    /\ lmMtx = NoClient
    /\ \E o \in LockManagerUnlock(lmState, locks, c, req[c].key, req[c].mode) :
          /\ rwOwner' = o.st.owner
          /\ rwWriters' = o.st.writers
          /\ rwReaders' = o.st.readers
          /\ rwBlocked' = o.st.blocked
          /\ lmMtx' = o.mtx
          /\ result' = [result EXCEPT ![c] = IF o.err = "none" THEN "ok" ELSE o.err]
          /\ pc' = IF o.err = "fatal" THEN [d \in Clients |-> "fatal"]
                   ELSE [pc EXCEPT ![c] = "idle"]
    /\ tmReaders' = [tmReaders EXCEPT ![c] = @ - 1]
    /\ UNCHANGED <<transactions, resources, epoch, tmWriter, req, conf, added, calls,
                   scripted, script, edges, detected, locks>>

\* lm.Lock(r, lType): under lm.lmMtx the resource gets its RWMutex, then the
\* lock is asked for.
LmLock(c) ==
    /\ lmMtx = NoClient
    /\ LmRLock(c) \/ LmWLock(c)
    /\ locks' = locks \cup {req[c].key}
    /\ UNCHANGED lmMtx

\* The steps of Begin and Lock outside the lock manager; the writer that
\* waits goes in when it still is the announced one.
TMOutside(c) ==
    /\ \/ BeginCall(c)
       \/ BeginBody(c)
       \/ \E k \in Keys, m \in LockType : LockCall(c, k, m)
       \/ LockLookup(c)
       \/ LockAddEdge(c)
       \/ LockDetect(c)
       \/ LmRWake(c)
       \/ LmWAcquire(c) /\ c \in rwOwner[req[c].key]
       \/ LockRecord(c)
       \/ LockRemoveEdge(c)
    /\ UNCHANGED lmVars

InitUnlock ==
    /\ InitTM
    /\ InitFiles
    /\ pages = <<>> /\ latch = <<>> /\ thr = <<>> /\ oracle = <<>> /\ ret = <<>>
    /\ NoHash
    /\ NoPager
    /\ lmMtx = NoClient
    /\ locks = {}

NextUnlock ==
    /\ UNCHANGED <<recVars, idxVars>>
    /\ \E c \in Clients :
        \/ TMOutside(c)
        \/ LmLock(c)
        \/ \E k \in Keys, m \in LockType : UnlockCall(c, k, m)
        \/ UnlockDelete(c)
        \/ UnlockLm(c)

SpecUnlock == InitUnlock /\ [][NextUnlock]_vars

(***************************************************************************)
(* The deadlock test of the suite (testTransactionDeadlock): A holds a     *)
(* write lock on key 0, B one on key 1; then A asks for key 1, B for key   *)
(* 0, and each commits when its Lock call has returned.                    *)
(***************************************************************************)
\* The state of the scenario in which A holds key ka and B holds key kb.
S3State(ka, kb) ==
    /\ transactions = {"A", "B"}
    /\ resources = [c \in Clients |->
                      [r \in Keys |-> IF r = (IF c = "A" THEN ka ELSE kb)
                                      THEN W_LOCK ELSE NoLock]]
    /\ epoch = [c \in Clients |-> 1]
    /\ edges = <<>>
    /\ tmReaders = [c \in Clients |-> 0]
    /\ tmWriter = NoClient
    /\ rwOwner = [r \in Keys |-> IF r = ka THEN {"A"} ELSE {"B"}]
    /\ rwWriters = [r \in Keys |-> IF r = ka THEN {"A"} ELSE {"B"}]
    /\ rwReaders = [r \in Keys |-> {}]
    /\ rwBlocked = [r \in Keys |-> {}]
    /\ pc = [c \in Clients |-> "idle"]
    /\ req = [c \in Clients |-> [key |-> IF c = "A" THEN ka ELSE kb, mode |-> W_LOCK]]
    /\ conf = [c \in Clients |-> <<>>]
    /\ added = [c \in Clients |-> 0]
    /\ result = [c \in Clients |-> "ok"]
    /\ calls = [c \in Clients |-> 1]
    /\ scripted = TRUE
    /\ script = [c \in Clients |->
                   <<Cmd("lock", IF c = "A" THEN kb ELSE ka, W_LOCK),
                     Cmd("commit", 0, NoLock)>>]
    /\ detected = "none"

InitS3 == InitFiles /\ NoIndex /\ \E ka, kb \in Keys : ka # kb /\ S3State(ka, kb)

NextS3 ==
    /\ UNCHANGED <<recVars, idxVars, lmVars>>
    /\ \E c \in Clients :
        \/ \E k \in Keys, m \in LockType : LockCall(c, k, m)
        \/ LockSteps(c)
        \/ CommitCall(c)
        \/ CommitBody(c)

SpecS3 == InitS3 /\ [][NextS3]_vars

(***************************************************************************)
(* The graph on its own (testDeadlockSimple, testDeadlockDAG): edges are   *)
(* added and removed in any order, DetectCycle is asked.                   *)
(***************************************************************************)
GraphNodes == {<<"A", 1>>, <<"B", 1>>, <<"C", 1>>}

GAddEdge(f, t) ==
    /\ Len(edges) < MaxEdges
    /\ edges' = AddEdge(edges, f, t)
    /\ detected' = "none"
    /\ UNCHANGED <<tmVars, recVars>>

GRemoveEdge(f, t) ==
    /\ edges' = RemoveEdge(edges, f, t)
    /\ detected' = "none"
    /\ UNCHANGED <<tmVars, recVars>>

GDetectCycle ==
    /\ detected' = IF DetectCycle(edges) THEN "true" ELSE "false"
    /\ UNCHANGED <<tmVars, edges, recVars>>

NextGraph ==
    /\ UNCHANGED <<idxVars, lmVars>>
    /\ \/ \E f, t \in GraphNodes : GAddEdge(f, t)
       \/ \E f, t \in GraphNodes : GRemoveEdge(f, t)
       \/ GDetectCycle

SpecGraph == Init /\ [][NextGraph]_vars

(***************************************************************************)
(* The recovery server (main.go, -project recovery).  The handlers make    *)
(* the calls of the transaction manager themselves, so the calls follow    *)
(* the scripts.  No command is served after the first crash: the process   *)
(* is started again and may crash and start once more.                     *)
(***************************************************************************)
TMFresh ==
    /\ transactions = {}
    /\ resources = [c \in Clients |-> NoResources]
    /\ epoch = [c \in Clients |-> 0]
    /\ edges = <<>>
    /\ tmReaders = [c \in Clients |-> 0]
    /\ tmWriter = NoClient
    /\ rwOwner = [r \in Keys |-> {}]
    /\ rwWriters = [r \in Keys |-> {}]
    /\ rwReaders = [r \in Keys |-> {}]
    /\ rwBlocked = [r \in Keys |-> {}]
    /\ pc = [c \in Clients |-> "idle"]
    /\ req = [c \in Clients |-> [key |-> 0, mode |-> R_LOCK]]
    /\ conf = [c \in Clients |-> <<>>]
    /\ added = [c \in Clients |-> 0]
    /\ result = [c \in Clients |-> "none"]
    /\ calls = [c \in Clients |-> 0]
    /\ scripted = TRUE
    /\ script = [c \in Clients |-> <<>>]
    /\ detected = "none"

InitRec == InitFiles /\ TMFresh /\ NoIndex

\* One connection: the server with a single client, which also asks for
\* the checkpoints.
Solo == "A"

\* The calls of the transaction manager the handlers of the one client make;
\* with nobody to conflict with, Lock adds no edge.
TMStepSolo ==
    /\ status = "running"
    /\ UNCHANGED recVars
    /\ \/ BeginCall(Solo)
       \/ BeginBody(Solo)
       \/ \E k \in EditKeys : LockCall(Solo, k, W_LOCK)
       \/ LockLookup(Solo)
       \/ LockDetect(Solo)
       \/ LmWLock(Solo)
       \/ LmWAcquire(Solo)
       \/ LockRecord(Solo)
       \/ CommitCall(Solo)
       \/ CommitBody(Solo)

\* The statements of a client in a transaction or outside one.
Statements(c) ==
    \/ HStart(c)
    \/ HCommit(c)
    \/ \E act \in Action, k \in EditKeys, v \in Values : HEdit(c, act, k, v)
    \/ HApply(c)
    \/ HAbort(c)
    \/ HRollbackStep(c)
    \/ HRollbackFinish(c)

NextRec ==
    /\ UNCHANGED <<idxVars, lmVars>>
    /\ \/ TMStepSolo
       \/ HCreateTable(Solo)
       \/ Statements(Solo)
       \/ CkptFlush(Solo)
       \/ CkptLog
       \/ DeltaRemove
       \/ DeltaMkdir
       \/ DeltaCopy
       \/ Crash
       \/ Startup

SpecRec == InitRec /\ [][NextRec]_vars

(***************************************************************************)
(* Two connections at work on a table that an earlier connection created   *)
(* and, in some runs, left a committed row in.  Each client issues one     *)
(* statement; the process may crash at any moment.                         *)
(***************************************************************************)
Earlier == "Z"

\* The log the earlier connection left: create table, and, when it inserted
\* the row with value v, its transaction.
EarlierLog(v) ==
    IF v = Absent THEN <<tableLog>>
    ELSE <<tableLog, startLog(Earlier), editLog(Earlier, INSERT_ACTION, 1, 0, v),
           commitLog(Earlier)>>

InitLive ==
    /\ TMFresh
    /\ NoIndex
    /\ \E v \in {Absent} \cup Values :
          FilesAre(EarlierLog(v), NewTable, [NewTable EXCEPT !.rows[1] = v])

\* The calls of the transaction manager that the handlers make.
TMStep(c) ==
    /\ status = "running"
    /\ UNCHANGED recVars
    /\ \/ BeginCall(c)
       \/ BeginBody(c)
       \/ \E k \in EditKeys : LockCall(c, k, W_LOCK)
       \/ LockSteps(c)
       \/ CommitCall(c)
       \/ CommitBody(c)

NextLive ==
    /\ UNCHANGED <<idxVars, lmVars>>
    /\ \/ \E c \in Clients : TMStep(c) \/ Statements(c)
       \/ Crash
       \/ Startup

SpecLive == InitLive /\ [][NextLive]_vars

(***************************************************************************)
(* The statements that only take a lock: find (a read lock) and lock (a    *)
(* write lock).  The recovery REPL passes both to the handlers of the      *)
(* concurrency REPL.  Two connections issue them, inside transactions or   *)
(* outside, on a table that exists.                                        *)
(***************************************************************************)
\* find <key> from <table> / lock <table> <key>, up to the call of tm.Lock.
HLockStmt(c, k, m) ==
    /\ AtPrompt(c)
    /\ mem.ex
    /\ calls[c] < MaxCalls
    /\ calls' = [calls EXCEPT ![c] = @ + 1]
    /\ hpc' = [hpc EXCEPT ![c] = IF m = R_LOCK THEN "find" ELSE "lock"]
    /\ script' = [script EXCEPT ![c] = <<Cmd("lock", k, m)>>]
    /\ UNCHANGED <<transactions, resources, epoch, tmReaders, tmWriter, rwOwner,
                   rwWriters, rwReaders, rwBlocked, pc, req, conf, added, result,
                   scripted, edges, detected>>
    /\ UNCHANGED <<log, dbDisk, snapshot, status, mem, txStack, ckpt, hreq, undoIx,
                   stmts, aborts, ckpts, crashes, durable, work, pre, lastApplied,
                   crashedIn, recovered>>

\* find / lock, after tm.Lock: the error, if any, goes back to the REPL.
HLockReturn(c) ==
    /\ Returned(c)
    /\ hpc[c] \in {"find", "lock"}
    /\ hpc' = [hpc EXCEPT ![c] = "none"]
    /\ UNCHANGED <<tmRest, script, log, dbDisk, snapshot, status, mem, txStack, ckpt,
                   hreq, undoIx, stmts, aborts, ckpts, crashes, durable, work, pre,
                   lastApplied, crashedIn, recovered>>

\* The calls of the transaction manager, read locks included.
TMStepAll(c) ==
    /\ status = "running"
    /\ UNCHANGED recVars
    /\ TMCalls(c)

NextStmt ==
    /\ UNCHANGED <<idxVars, lmVars>>
    /\ \E c \in Clients :
        \/ TMStepAll(c)
        \/ HStart(c)
        \/ HCommit(c)
        \/ HAbort(c)
        \/ HRollbackStep(c)
        \/ HRollbackFinish(c)
        \/ \E k \in Keys, m \in LockType : HLockStmt(c, k, m)
        \/ HLockReturn(c)

InitStmt == TMFresh /\ NoIndex /\ FilesAre(EarlierLog(Absent), NewTable, NewTable)

SpecStmt == InitStmt /\ [][NextStmt]_vars

(***************************************************************************)
(* The B+ tree index.  A page holds one node; the root is always page 0.   *)
(* The capacities are those of a page of four cells instead of the 4096    *)
(* bytes of pager.PAGESIZE, so that a handful of entries splits leaves,    *)
(* internal nodes and the root.                                            *)
(***************************************************************************)
ENTRIES_PER_LEAF_NODE == 2
KEYS_PER_INTERNAL_NODE == 2
ROOT_PN == 0

\* Pages a tree grows to.
MaxBTPages == 9

BKeys == 1..6
BVals == {1, 2}

\* LeafNode: the entries in key order and the page number of the right sibling.
LeafNode(keys, vals, right) ==
    [leaf |-> TRUE, keys |-> keys, vals |-> vals, pns |-> <<>>, right |-> right]

\* InternalNode: numKeys keys and numKeys + 1 page numbers of children.
InternalNode(keys, pns) ==
    [leaf |-> FALSE, keys |-> keys, vals |-> <<>>, pns |-> pns, right |-> 0]

\* The node in page pn.
Page(ps, pn) == ps[pn + 1]

\* The pages after page pn was written; pager.GetPage of the first page
\* number beyond the file makes the file one page longer.
SetPage(ps, pn, node) ==
    IF pn = Len(ps) THEN Append(ps, node) ELSE [ps EXCEPT ![pn + 1] = node]

\* s with x put in as cell i (cells count from 0), the cells from i on shifted right.
InsertAt(s, i, x) == SubSeq(s, 1, i) \o <<x>> \o SubSeq(s, i + 1, Len(s))

\* s without cell i, the cells after it shifted left.
RemoveAt(s, i) == SubSeq(s, 1, i) \o SubSeq(s, i + 2, Len(s))

\* sort.Search over the cells i..j-1 of a node: in a leaf for the first key
\* >= key, in an internal node for the first key > key.
RECURSIVE sortSearch(_, _, _, _)
sortSearch(node, key, i, j) ==
    IF i >= j THEN i
    ELSE LET h == (i + j) \div 2
             hit == IF node.leaf THEN node.keys[h + 1] >= key
                    ELSE node.keys[h + 1] > key
         IN IF hit THEN sortSearch(node, key, i, h)
            ELSE sortSearch(node, key, h + 1, j)

search(node, key) == sortSearch(node, key, 0, Len(node.keys))

\* What insert hands to the caller: the pages, a Split and its err.
NoSplit(ps, err) ==
    [ps |-> ps, isSplit |-> FALSE, key |-> 0, leftPN |-> 0, rightPN |-> 0, err |-> err]

\* LeafNode.insert that writes the cell before it looks for a duplicate or
\* a missing key.
leafInsertEager(node, key, value, update) ==
    LET insertPos == search(node, key)
        dup == insertPos < Len(node.keys) /\ node.keys[insertPos + 1] = key
    IN  IF dup
        THEN [node |-> [node EXCEPT !.vals[insertPos + 1] = value],
              err |-> IF update THEN "none" ELSE "duplicate"]
        ELSE [node |-> [node EXCEPT !.keys = InsertAt(@, insertPos, key),
                                    !.vals = InsertAt(@, insertPos, value)],
              err |-> IF update THEN "missing" ELSE "none"]

\* LeafNode.insert on the node alone, before any split.
leafInsert(node, key, value, update) ==
    LET insertPos == search(node, key)
        dup == insertPos < Len(node.keys) /\ node.keys[insertPos + 1] = key
    IN  IF dup
        THEN IF update
             THEN [node |-> [node EXCEPT !.vals[insertPos + 1] = value], err |-> "none"]
             ELSE [node |-> node, err |-> "duplicate"]
        ELSE IF update
             THEN [node |-> node, err |-> "missing"]
             ELSE [node |-> [node EXCEPT !.keys = InsertAt(@, insertPos, key),
                                         !.vals = InsertAt(@, insertPos, value)],
                   err |-> "none"]

\* LeafNode.split and InternalNode.split of the node in page pn, the new
\* node going to page newPN.
split(ps, pn, newPN) ==
    LET node == Page(ps, pn)
        n == Len(node.keys)
    IN  IF node.leaf
        THEN LET midpoint == n \div 2
                 newNode == LeafNode(SubSeq(node.keys, midpoint + 1, n),
                                     SubSeq(node.vals, midpoint + 1, n), node.right)
                 left == LeafNode(SubSeq(node.keys, 1, midpoint),
                                  SubSeq(node.vals, 1, midpoint), newPN)
             IN  [ps |-> SetPage(SetPage(ps, newPN, newNode), pn, left),
                  isSplit |-> TRUE, key |-> newNode.keys[1],
                  leftPN |-> pn, rightPN |-> newPN, err |-> "none"]
        ELSE LET midpoint == (n - 1) \div 2
                 newNode == InternalNode(SubSeq(node.keys, midpoint + 1, n),
                                         SubSeq(node.pns, midpoint + 1, n + 1))
                 left == InternalNode(SubSeq(node.keys, 1, midpoint - 1),
                                      SubSeq(node.pns, 1, midpoint))
             IN  [ps |-> SetPage(SetPage(ps, newPN, newNode), pn, left),
                  isSplit |-> TRUE, key |-> node.keys[midpoint],
                  leftPN |-> pn, rightPN |-> newPN, err |-> "none"]

\* insertSplit with the new page number put one child too far to the left.
insertSplitLeft(node, s) ==
    LET insertPos == search(node, s.key)
    IN  [node EXCEPT !.keys = InsertAt(@, insertPos, s.key),
                     !.pns = InsertAt(@, insertPos, s.rightPN)]

\* InternalNode.insertSplit on the node alone, before any split.
insertSplit(node, s) ==
    LET insertPos == search(node, s.key)
    IN  [node EXCEPT !.keys = InsertAt(@, insertPos, s.key),
                     !.pns = InsertAt(@, insertPos + 1, s.rightPN)]

\* The capacity of a node.
Capacity(node) ==
    IF node.leaf THEN ENTRIES_PER_LEAF_NODE ELSE KEYS_PER_INTERNAL_NODE

\* Node.insert from the node in page pn down, with every page it asks the
\* pager for granted.
RECURSIVE insert(_, _, _, _, _)
insert(ps, pn, key, value, update) ==
    LET node == Page(ps, pn)
    IN  IF node.leaf
        THEN LET r == leafInsert(node, key, value, update)
                 ps1 == SetPage(ps, pn, r.node)
             IN  IF Len(r.node.keys) > ENTRIES_PER_LEAF_NODE
                 THEN split(ps1, pn, Len(ps1))
                 ELSE NoSplit(ps1, r.err)
        ELSE LET res == insert(ps, node.pns[search(node, key) + 1], key, value, update)
             IN  IF res.isSplit
                 THEN LET ps1 == SetPage(res.ps, pn, insertSplit(node, res))
                      IN  IF Len(Page(ps1, pn).keys) > KEYS_PER_INTERNAL_NODE
                          THEN split(ps1, pn, Len(ps1))
                          ELSE NoSplit(ps1, "none")
                 ELSE NoSplit(res.ps, res.err)

\* The split of the root in BTreeIndex.Insert: the old root moves to page
\* newPN and page 0 becomes an internal node over the two halves.
rootSplit(ps, res, newPN) ==
    IF res.leftPN # 0 THEN NoSplit(ps, "corrupted")
    ELSE LET ps1 == SetPage(ps, newPN, Page(ps, ROOT_PN))
         IN  NoSplit(SetPage(ps1, ROOT_PN,
                             InternalNode(<<res.key>>, <<newPN, res.rightPN>>)),
                     res.err)

\* BTreeIndex.Insert.
Insert(ps, key, value) ==
    LET res == insert(ps, ROOT_PN, key, value, FALSE)
    IN  IF res.isSplit THEN rootSplit(res.ps, res, Len(res.ps)) ELSE res

\* BTreeIndex.Update.
Update(ps, key, value) == insert(ps, ROOT_PN, key, value, TRUE)

\* The leaf the descent for key ends in (InternalNode.get, delete and
\* keyToNodeEntry pick the child alike).
RECURSIVE leafFor(_, _, _)
leafFor(ps, pn, key) ==
    LET node == Page(ps, pn)
    IN  IF node.leaf THEN pn ELSE leafFor(ps, node.pns[search(node, key) + 1], key)

\* BTreeIndex.Find: LeafNode.get in the leaf of key.
Find(ps, key) ==
    LET node == Page(ps, leafFor(ps, ROOT_PN, key))
        index == search(node, key)
    IN  IF index >= Len(node.keys) \/ node.keys[index + 1] # key
        THEN [found |-> FALSE, value |-> 0]
        ELSE [found |-> TRUE, value |-> node.vals[index + 1]]

\* BTreeIndex.Delete: LeafNode.delete in the leaf of key.
Delete(ps, key) ==
    LET pn == leafFor(ps, ROOT_PN, key)
        node == Page(ps, pn)
        deletePos == search(node, key)
    IN  IF deletePos >= Len(node.keys) \/ node.keys[deletePos + 1] # key THEN ps
        ELSE SetPage(ps, pn, [node EXCEPT !.keys = RemoveAt(@, deletePos),
                                          !.vals = RemoveAt(@, deletePos)])

\* BTreeCursor: a leaf, a cell of it, and whether it stands behind the last cell.
Cursor(pn, cellnum, isEnd) == [pn |-> pn, cellnum |-> cellnum, isEnd |-> isEnd]

\* TableStart going down the rightmost children instead.
RECURSIVE TableStartRight(_, _)
TableStartRight(ps, pn) ==
    LET node == Page(ps, pn)
    IN  IF node.leaf THEN Cursor(pn, 0, Len(node.keys) = 0)
        ELSE TableStartRight(ps, node.pns[Len(node.pns)])

\* BTreeIndex.TableStart: down the leftmost children from page pn.
RECURSIVE TableStart(_, _)
TableStart(ps, pn) ==
    LET node == Page(ps, pn)
    IN  IF node.leaf THEN Cursor(pn, 0, Len(node.keys) = 0)
        ELSE TableStart(ps, node.pns[1])

\* BTreeIndex.TableFind.
TableFind(ps, key) ==
    LET pn == leafFor(ps, ROOT_PN, key)
        cellnum == search(Page(ps, pn), key)
    IN  Cursor(pn, cellnum, cellnum = Len(Page(ps, pn).keys))

\* BTreeCursor.StepForward: the cursor afterwards and whether it failed.
RECURSIVE StepForward(_, _)
StepForward(ps, cursor) ==
    IF cursor.isEnd
    THEN LET nextPN == Page(ps, cursor.pn).right
         IN  IF nextPN < 0 THEN [cursor |-> cursor, err |-> TRUE]
             ELSE LET next == Cursor(nextPN, 0, Len(Page(ps, nextPN).keys) = 0)
                  IN  IF next.isEnd THEN StepForward(ps, next)
                      ELSE [cursor |-> next, err |-> FALSE]
    ELSE [cursor |-> Cursor(cursor.pn, cursor.cellnum + 1,
                            cursor.cellnum + 1 >= Len(Page(ps, cursor.pn).keys)),
          err |-> FALSE]

\* BTreeCursor.GetEntry of a cursor that is not at an end.
GetEntry(ps, cursor) ==
    [key |-> Page(ps, cursor.pn).keys[cursor.cellnum + 1],
     value |-> Page(ps, cursor.pn).vals[cursor.cellnum + 1]]

\* The loop of BTreeIndex.Select.
RECURSIVE selectLoop(_, _, _)
selectLoop(ps, cursor, entries) ==
    LET seen == IF cursor.isEnd THEN entries ELSE Append(entries, GetEntry(ps, cursor))
        step == StepForward(ps, cursor)
    IN  IF step.err THEN seen ELSE selectLoop(ps, step.cursor, seen)

\* BTreeIndex.Select.
Select(ps) == selectLoop(ps, TableStart(ps, ROOT_PN), <<>>)

\* The loop of BTreeIndex.TableFindRange; GetEntry of a cursor at an end is
\* an error, with which TableFindRange returns.
RECURSIVE rangeLoop(_, _, _, _)
rangeLoop(ps, cursor, endKey, entries) ==
    IF cursor.isEnd THEN [entries |-> entries, err |-> TRUE]
    ELSE LET curEntry == GetEntry(ps, cursor)
         IN  IF endKey > curEntry.key
             THEN rangeLoop(ps, StepForward(ps, cursor).cursor, endKey,
                            Append(entries, curEntry))
             ELSE [entries |-> entries, err |-> FALSE]

\* BTreeIndex.TableFindRange.
TableFindRange(ps, startKey, endKey) ==
    rangeLoop(ps, TableFind(ps, startKey), endKey, <<>>)

(***************************************************************************)
(* One goroutine works on a tree that starts empty, one call after         *)
(* another.                                                                *)
(***************************************************************************)
\* What a call returned.
Ret(op, key, value, err, entries) ==
    [op |-> op, key |-> key, value |-> value, err |-> err, entries |-> entries]

\* btree.OpenTable of a new file: the root is an empty leaf without sibling.
NewTree == <<LeafNode(<<>>, <<>>, -1)>>

BInsert(k, v) ==
    LET r == Insert(pages, k, v)
    IN  /\ Len(r.ps) <= MaxBTPages
        /\ pages' = r.ps
        /\ oracle' = IF r.err = "none" THEN [oracle EXCEPT ![k] = v] ELSE oracle
        /\ ret' = Ret("insert", k, v, r.err, <<>>)
        /\ UNCHANGED <<dbVars, pagerVars, hashVars, latch, thr>>

BUpdate(k, v) ==
    LET r == Update(pages, k, v)
    IN  /\ pages' = r.ps
        /\ oracle' = IF r.err = "none" THEN [oracle EXCEPT ![k] = v] ELSE oracle
        /\ ret' = Ret("update", k, v, r.err, <<>>)
        /\ UNCHANGED <<dbVars, pagerVars, hashVars, latch, thr>>

BDelete(k) ==
    /\ pages' = Delete(pages, k)
    /\ oracle' = [oracle EXCEPT ![k] = Absent]
    /\ ret' = Ret("delete", k, 0, "none", <<>>)
    /\ UNCHANGED <<dbVars, pagerVars, hashVars, latch, thr>>

BFind(k) ==
    LET r == Find(pages, k)
    IN  /\ ret' = Ret("find", k, r.value, IF r.found THEN "none" ELSE "notfound", <<>>)
        /\ UNCHANGED <<dbVars, pagerVars, hashVars, pages, latch, thr, oracle>>

BSelect ==
    /\ ret' = Ret("select", 0, 0, "none", Select(pages))
    /\ UNCHANGED <<dbVars, pagerVars, hashVars, pages, latch, thr, oracle>>

BFindRange(lo, hi) ==
    LET r == TableFindRange(pages, lo, hi)
    IN  /\ ret' = Ret("range", lo, hi, IF r.err THEN "nonexistent" ELSE "none", r.entries)
        /\ UNCHANGED <<dbVars, pagerVars, hashVars, pages, latch, thr, oracle>>

InitBT ==
    /\ InitTM
    /\ InitFiles
    /\ NoLm
    /\ NoPager
    /\ NoHash
    /\ pages = NewTree
    /\ latch = <<>>
    /\ thr = <<>>
    /\ oracle = [k \in BKeys |-> Absent]
    /\ ret = Ret("open", 0, 0, "none", <<>>)

\* Inserts, updates and finds, with values that differ.
NextBT ==
    \/ \E k \in BKeys, v \in BVals : BInsert(k, v)
    \/ \E k \in BKeys, v \in BVals : BUpdate(k, v)
    \/ \E k \in BKeys : BFind(k)

SpecBT == InitBT /\ [][NextBT]_vars

\* Inserts and deletes, and the scans: select and the range query.
NextScan ==
    \/ \E k \in BKeys : BInsert(k, k)
    \/ \E k \in BKeys : BDelete(k)
    \/ BSelect
    \/ \E lo, hi \in BKeys : BFindRange(lo, hi)

SpecScan == InitBT /\ [][NextScan]_vars

(***************************************************************************)
(* Goroutines at work on one tree.  Each call of Insert, Update, Find or   *)
(* Delete goes down from the root, latching SUPER_NODE, the root and then  *)
(* one child after another; a step of a goroutine is what it does from one *)
(* WLock or pager call to the next.  The pager has NUMPAGES frames (six    *)
(* instead of the 32 of config.NumPages); a page stays pinned until the    *)
(* function that got it returns.                                           *)
(***************************************************************************)
NUMPAGES == 6
SUPER_NODE == -1

\* Calls one goroutine makes.
MaxBTOps == 1

Goroutines == {"g1", "g2"}

\* Who holds the latches that a call left locked when it returned.
Leaked == "leaked"

\* The keys a goroutine works on: the first two are in no tree at the
\* start, the third is in every tree but the empty one.
GKeys(g) == IF g = "g1" THEN {1, 3, 2} ELSE {7, 9, 8}

\* The orders in which the entries of the tree at the start were inserted.
BuildSeqs == {<<>>, <<2, 4, 6, 8, 10, 12>>, <<12, 10, 8, 6, 4, 2, 14>>}

\* The tree after the keys of a sequence were inserted one after another.
RECURSIVE Build(_, _)
Build(ps, seq) ==
    IF seq = <<>> THEN ps
    ELSE Build(Insert(ps, Head(seq), 1).ps, Tail(seq))

\* A goroutine that is in no call.
IdleThread ==
    [pc |-> "idle", op |-> "none", key |-> 0, value |-> 0, path |-> <<>>,
     link |-> <<>>, lev |-> 0, sp |-> NoSplit(<<>>, "none"), newPN |-> 0,
     pins |-> {}, err |-> "none", n |-> 0]

\* The pages some goroutine has pinned.
Pinned == UNION {thr[g].pins : g \in Goroutines}

\* pager.GetPage(pn) finds pn resident, or a frame that is free or unpinned.
CanGet(pn) == pn \in Pinned \/ Cardinality(Pinned) < NUMPAGES

\* unlockParent that unlocks the parent alone.
parentsOne(path, link, i) ==
    IF i = 0 \/ ~link[i] THEN {}
    ELSE {IF i = 1 THEN SUPER_NODE ELSE path[i - 1]}

\* unlockParent at the node at place i of the path: the latches of the
\* parents it walks over, SUPER_NODE being the parent of the root.
RECURSIVE parents(_, _, _)
parents(path, link, i) ==
    IF i = 0 \/ ~link[i] THEN {}
    ELSE {IF i = 1 THEN SUPER_NODE ELSE path[i - 1]} \cup parents(path, link, i - 1)

\* The parent pointers after unlockParent or unlock at place i and above.
Unlinked(link, i) == [j \in 1..Len(link) |-> IF j <= i THEN FALSE ELSE link[j]]

\* unsafeUnlockRoot: the root and SUPER_NODE, when the root still points to
\* its parent.
unsafeUnlockRoot(link) == IF Len(link) >= 1 /\ link[1] THEN {ROOT_PN, SUPER_NODE} ELSE {}

\* The call of g returns err: the deferred unsafeUnlockRoot and Put run, and
\* the latches in freed were given back on the way.
Return(g, ps, freed, link, err, done) ==
    /\ pages' = ps
    /\ latch' = [latch EXCEPT ![g] = {},
                              ![Leaked] = @ \cup ((latch[g] \ freed) \ unsafeUnlockRoot(link))]
    /\ thr' = [thr EXCEPT ![g] = [IdleThread EXCEPT !.pc = "done", !.op = thr[g].op,
                                     !.key = thr[g].key, !.value = thr[g].value,
                                     !.err = err, !.n = thr[g].n]]
    /\ oracle' = IF done THEN [oracle EXCEPT ![thr[g].key] =
                                  IF thr[g].op = "delete" THEN Absent ELSE thr[g].value]
                 ELSE oracle
    /\ UNCHANGED <<dbVars, pagerVars, hashVars, ret>>

\* A goroutine calls Insert, Update, Find or Delete: pager.GetPage(rootPN).
BCall(g, op, k, v) ==
    /\ thr[g].pc \in {"idle", "done"}
    /\ thr[g].n < MaxBTOps
    /\ thr' = [thr EXCEPT ![g] =
                  IF CanGet(ROOT_PN)
                  THEN [IdleThread EXCEPT !.pc = "super", !.op = op, !.key = k,
                                          !.value = v, !.pins = {ROOT_PN},
                                          !.n = thr[g].n + 1]
                  ELSE [IdleThread EXCEPT !.pc = "done", !.op = op, !.key = k,
                                          !.value = v, !.err = "pager",
                                          !.n = thr[g].n + 1]]
    /\ UNCHANGED <<dbVars, pagerVars, hashVars, pages, latch, oracle, ret>>

\* lockRoot, first half: SUPER_NODE.page.WLock().
LockSuper(g) ==
    /\ thr[g].pc = "super"
    /\ \A h \in DOMAIN latch : SUPER_NODE \notin latch[h]
    /\ latch' = [latch EXCEPT ![g] = @ \cup {SUPER_NODE}]
    /\ thr' = [thr EXCEPT ![g].pc = "root"]
    /\ UNCHANGED <<dbVars, pagerVars, hashVars, pages, oracle, ret>>

\* lockRoot, second half, and initRootNode.
LockRoot(g) ==
    /\ thr[g].pc = "root"
    /\ \A h \in DOMAIN latch : ROOT_PN \notin latch[h]
    /\ latch' = [latch EXCEPT ![g] = @ \cup {ROOT_PN}]
    /\ thr' = [thr EXCEPT ![g].pc = "visit", ![g].path = <<ROOT_PN>>,
                          ![g].link = <<TRUE>>]
    /\ UNCHANGED <<dbVars, pagerVars, hashVars, pages, oracle, ret>>

\* insert, get or delete of the node the goroutine has just latched, up to
\* its return or to the next call that can block or fail.
Visit(g) ==
    LET t == thr[g]
        i == Len(t.path)
        pn == t.path[i]
        node == Page(pages, pn)
        writes == t.op \in {"insert", "update"}
        free == ~writes \/ Len(node.keys) # Capacity(node)
        up == IF free THEN parents(t.path, t.link, i) ELSE {}
        link1 == IF free THEN Unlinked(t.link, i) ELSE t.link
        child == node.pns[search(node, t.key) + 1]
    IN  /\ t.pc = "visit"
        /\ IF node.leaf
           THEN IF writes
                THEN LET r == leafInsert(node, t.key, t.value, t.op = "update")
                     IN  IF Len(r.node.keys) > ENTRIES_PER_LEAF_NODE
                         THEN /\ pages' = SetPage(pages, pn, r.node)
                              /\ latch' = [latch EXCEPT ![g] = @ \ up]
                              /\ thr' = [thr EXCEPT ![g].pc = "alloc", ![g].lev = i,
                                                    ![g].link = link1]
                              /\ UNCHANGED <<dbVars, pagerVars, hashVars, oracle, ret>>
                         ELSE Return(g, SetPage(pages, pn, r.node),
                                     up \cup parents(t.path, link1, i) \cup {pn},
                                     Unlinked(link1, i), r.err, r.err = "none")
                ELSE IF t.op = "delete"
                     THEN Return(g, Delete(pages, t.key), up \cup {pn}, link1, "none", TRUE)
                     ELSE Return(g, pages, up \cup {pn}, link1,
                                 IF Find(pages, t.key).found THEN "none" ELSE "notfound",
                                 FALSE)
           ELSE IF CanGet(child)
                THEN /\ latch' = [latch EXCEPT ![g] = @ \ up]
                     /\ thr' = [thr EXCEPT ![g].pc = "child",
                                           ![g].path = Append(t.path, child),
                                           ![g].link = Append(link1, FALSE),
                                           ![g].pins = @ \cup {child}]
                     /\ UNCHANGED <<dbVars, pagerVars, hashVars, pages, oracle, ret>>
                ELSE Return(g, pages, up, link1, "pager", FALSE)

\* getChildAt, second half: page.WLock() of the child, and initChild.
LockChild(g) ==
    LET t == thr[g]
        child == t.path[Len(t.path)]
    IN  /\ t.pc = "child"
        /\ \A h \in DOMAIN latch : child \notin latch[h]
        /\ latch' = [latch EXCEPT ![g] = @ \cup {child}]
        /\ thr' = [thr EXCEPT ![g].pc = "visit", ![g].link[Len(t.path)] = TRUE]
        /\ UNCHANGED <<dbVars, pagerVars, hashVars, pages, oracle, ret>>

\* createLeafNode / createInternalNode, first line: pager.GetFreePN().
Alloc(g) ==
    /\ thr[g].pc = "alloc"
    /\ thr' = [thr EXCEPT ![g].pc = "page", ![g].newPN = Len(pages)]
    /\ UNCHANGED <<dbVars, pagerVars, hashVars, pages, latch, oracle, ret>>

\* createLeafNode / createInternalNode, the rest: pager.GetPage(newPN) and
\* initPage; when the pager has no frame, the split returns its error.  lev
\* is the place in the path of the node that splits, 0 for the copy of the
\* root that Insert makes.
GetNew(g) ==
    LET t == thr[g]
        lev == t.lev
        leaf == IF lev = 0 THEN Page(pages, ROOT_PN).leaf ELSE Page(pages, t.path[lev]).leaf
        blank == IF leaf THEN LeafNode(<<>>, <<>>, 0) ELSE InternalNode(<<>>, <<>>)
    IN  /\ t.pc = "page"
        /\ IF CanGet(t.newPN)
           THEN /\ pages' = SetPage(pages, t.newPN, blank)
                /\ thr' = [thr EXCEPT ![g].pc = "fill", ![g].pins = @ \cup {t.newPN}]
                /\ UNCHANGED <<dbVars, pagerVars, hashVars, latch, oracle, ret>>
           ELSE IF lev = 0
                THEN Return(g, pages, {SUPER_NODE}, t.link, "pager", FALSE)
                ELSE IF leaf
                     THEN Return(g, pages, {t.path[lev]}, [t.link EXCEPT ![lev] = FALSE],
                                 "pager", FALSE)
                     ELSE Return(g, pages,
                                 parents(t.path, t.link, lev) \cup {t.path[lev]},
                                 Unlinked(t.link, lev), "pager", FALSE)

\* The split with the new page at hand, and the way back up to the next
\* node that has to split, or to the return of the call.
Fill(g) ==
    LET t == thr[g]
        lev == t.lev
    IN  /\ t.pc = "fill"
        /\ IF lev = 0
           THEN Return(g, rootSplit(pages, t.sp, t.newPN).ps, {SUPER_NODE}, t.link,
                       rootSplit(pages, t.sp, t.newPN).err,
                       rootSplit(pages, t.sp, t.newPN).err = "none")
           ELSE LET s == split(pages, t.path[lev], t.newPN)
                    link1 == [t.link EXCEPT ![lev] = FALSE]
                IN  IF lev = 1
                    THEN /\ pages' = s.ps
                         /\ latch' = [latch EXCEPT ![g] = @ \ {t.path[lev]}]
                         /\ thr' = [thr EXCEPT ![g].pc = "alloc", ![g].lev = 0,
                                               ![g].sp = [s EXCEPT !.ps = <<>>],
                                               ![g].link = link1,
                                               ![g].pins = @ \ {t.newPN}]
                         /\ UNCHANGED <<dbVars, pagerVars, hashVars, oracle, ret>>
                    ELSE LET p == t.path[lev - 1]
                             ps1 == SetPage(s.ps, p, insertSplit(Page(s.ps, p), s))
                         IN  IF Len(Page(ps1, p).keys) > KEYS_PER_INTERNAL_NODE
                             THEN /\ pages' = ps1
                                  /\ latch' = [latch EXCEPT ![g] = @ \ {t.path[lev]}]
                                  /\ thr' = [thr EXCEPT ![g].pc = "alloc",
                                                        ![g].lev = lev - 1,
                                                        ![g].link = link1,
                                                        ![g].pins = @ \ {t.newPN}]
                                  /\ UNCHANGED <<dbVars, pagerVars, hashVars, oracle, ret>>
                             ELSE Return(g, ps1,
                                         {t.path[lev], p}
                                             \cup parents(t.path, link1, lev - 1),
                                         Unlinked(link1, lev - 1), "none", TRUE)

\* Some tree that earlier calls built, and two goroutines in no call.
InitLatch ==
    /\ InitTM
    /\ InitFiles
    /\ NoLm
    /\ NoPager
    /\ NoHash
    /\ \E seq \in BuildSeqs :
          /\ pages = Build(NewTree, seq)
          /\ oracle = [k \in 1..14 |-> IF \E i \in 1..Len(seq) : seq[i] = k THEN 1
                                       ELSE Absent]
    /\ latch = [g \in Goroutines \cup {Leaked} |-> {}]
    /\ thr = [g \in Goroutines |-> IdleThread]
    /\ ret = Ret("open", 0, 0, "none", <<>>)

NextLatch ==
    \E g \in Goroutines :
        \/ \E op \in {"insert", "update", "find", "delete"}, k \in GKeys(g) :
               BCall(g, op, k, 2)
        \/ LockSuper(g)
        \/ LockRoot(g)
        \/ Visit(g)
        \/ LockChild(g)
        \/ Alloc(g)
        \/ GetNew(g)
        \/ Fill(g)

SpecLatch == InitLatch /\ [][NextLatch]_vars

(***************************************************************************)
(* The extendible hash index (pkg/hash).  HashTable.Insert holds the write *)
(* lock of the table from its first line to its return, Find the read      *)
(* lock; a step of a goroutine is what it does from one lock call to the   *)
(* next.  A bucket page holds BUCKETSIZE entries (two instead of the 203   *)
(* of a 4096-byte page).  Insert pins the bucket and Split one page more   *)
(* per level of its recursion, up to its return; with NUMPAGES pages       *)
(* pinned, the GetPage of NewHashBucket fails.                             *)
(***************************************************************************)
BUCKETSIZE == 2

\* depth of NewHashTable.
NewDepth == 2

\* The values xxhash.Sum64 gives to keys: some that agree in their last
\* two bits, of which some agree in their last three, and two that agree in
\* their last two bits alone.
HashVals == {0, 4, 8, 12, 1, 5}

\* The keys each goroutine inserts, in ascending order, and the value that
\* goes with a key.
HKeys(g) == IF g = "g1" THEN {1, 2} ELSE {3, 4}
HValue(k) == 10 * k

powInt(x, y) == x ^ y

\* getHash with xxhash.Sum64: the hash made non-negative, modulo size.
getHash(key, size) ==
    LET hash == IF xxhash[key] < 0 THEN xxhash[key] * (-1) ELSE xxhash[key]
    IN  hash % size

Hasher(key, depth) == getHash(key, powInt(2, depth))

HashEntry(key, value) == [key |-> key, value |-> value]

\* A bucket page: its local depth and its cells; numKeys is Len(entries).
HashBucket(depth, entries) == [depth |-> depth, entries |-> entries]

\* NewHashTable: four buckets of depth 2 in pages 0 to 3.
NewHashTable ==
    [table |-> [depth |-> NewDepth,
                buckets |-> [i \in 1..powInt(2, NewDepth) |-> i - 1]],
     pages |-> [i \in 1..powInt(2, NewDepth) |-> HashBucket(NewDepth, <<>>)]]

\* HashBucket.Find: the first cell with the key.
HashBucketFind(bucket, key) ==
    LET at == {i \in 1..Len(bucket.entries) : bucket.entries[i].key = key}
    IN  IF at = {} THEN [found |-> FALSE, value |-> 0]
        ELSE [found |-> TRUE,
              value |-> bucket.entries[CHOOSE i \in at : \A j \in at : i <= j].value]

\* HashTable.Find.
HashTableFind(table, ps, key) ==
    LET hash == Hasher(key, table.depth)
    IN  IF hash < 0 \/ hash >= Len(table.buckets) THEN [found |-> FALSE, value |-> 0]
        ELSE HashBucketFind(ps[table.buckets[hash + 1] + 1], key)

\* HashBucket.Insert: the bucket, and whether it has to split.
HashBucketInsert(bucket, key, value) ==
    [bucket |-> [bucket EXCEPT !.entries = Append(@, HashEntry(key, value))],
     split |-> Len(bucket.entries) + 1 >= BUCKETSIZE]

\* ExtendTable that fills the new half of the directory with the first bucket.
ExtendTableFront(table) ==
    [depth |-> table.depth + 1,
     buckets |-> table.buckets \o [i \in 1..Len(table.buckets) |-> table.buckets[1]]]

\* HashTable.ExtendTable.
ExtendTable(table) ==
    [depth |-> table.depth + 1, buckets |-> table.buckets \o table.buckets]

\* The loop of Split with the step of the depth the bucket had before.
RepointOldStep(buckets, newHash, power, depth, newPN) ==
    [i \in 1..Len(buckets) |->
        IF /\ i - 1 >= newHash
           /\ i - 1 < powInt(2, depth)
           /\ (i - 1 - newHash) % powInt(2, power - 1) = 0
        THEN newPN ELSE buckets[i]]

\* The loop of Split that points the buckets newHash, newHash + 2^power,
\* ... below 2^depth to the new page.
Repoint(buckets, newHash, power, depth, newPN) ==
    [i \in 1..Len(buckets) |->
        IF /\ i - 1 >= newHash
           /\ i - 1 < powInt(2, depth)
           /\ (i - 1 - newHash) % powInt(2, power) = 0
        THEN newPN ELSE buckets[i]]

\* HashTable.Split of the bucket in page pn, with pinned pages pinned by
\* the call so far; the new bucket gets the page number GetFreePN gives, the
\* number of pages so far.
RECURSIVE Split(_, _, _, _, _)
Split(table, ps, pn, hash, pinned) ==
    LET bucket == ps[pn + 1]
        oldHash == hash % powInt(2, bucket.depth)
        newHash == oldHash + powInt(2, bucket.depth)
        table1 == IF bucket.depth = table.depth THEN ExtendTable(table) ELSE table
        depth1 == bucket.depth + 1
        newPN == Len(ps)
        moved == SelectSeq(bucket.entries, LAMBDA e : Hasher(e.key, depth1) = newHash)
        kept == SelectSeq(bucket.entries, LAMBDA e : Hasher(e.key, depth1) # newHash)
        ps1 == Append([ps EXCEPT ![pn + 1] = HashBucket(depth1, kept)],
                      HashBucket(depth1, moved))
        table2 == [table1 EXCEPT !.buckets =
                      Repoint(@, newHash, depth1, table1.depth, newPN)]
    IN  IF pinned >= NUMPAGES
        THEN [table |-> table1, pages |-> [ps EXCEPT ![pn + 1].depth = depth1],
              err |-> TRUE]
        ELSE IF Len(kept) >= BUCKETSIZE THEN Split(table2, ps1, pn, oldHash, pinned + 1)
        ELSE IF Len(moved) >= BUCKETSIZE
             THEN Split(table2, ps1, newPN, newHash, pinned + 1)
        ELSE [table |-> table2, pages |-> ps1, err |-> FALSE]

\* HashTable.Insert, between WLock and WUnlock.
HashTableInsert(table, ps, key, value) ==
    LET hash == Hasher(key, table.depth)
        pn == table.buckets[hash + 1]
        r == HashBucketInsert(ps[pn + 1], key, value)
        ps1 == [ps EXCEPT ![pn + 1] = r.bucket]
    IN  IF r.split THEN Split(table, ps1, pn, hash, 1)
        ELSE [table |-> table, pages |-> ps1, err |-> FALSE]

\* A goroutine in no call on the hash index.
IdleHash ==
    [pc |-> "idle", op |-> "none", key |-> 0, value |-> 0, had |-> FALSE,
     got |-> [found |-> FALSE, value |-> 0], ins |-> {}, err |-> FALSE]

\* The entries the inserts that have returned put into the table.
Inserted == UNION {hthr[g].ins : g \in Goroutines}

\* The hash values xxhash has given to the keys so far.
HashesUsed == {xxhash[k] : k \in DOMAIN xxhash}

\* A goroutine calls Insert with the next of its keys; xxhash of the key is
\* some value no other key has.
HCallInsert(g, k, h) ==
    /\ hthr[g].pc = "idle"
    /\ k \in HKeys(g) \ DOMAIN xxhash
    /\ \A j \in HKeys(g) \ DOMAIN xxhash : k <= j
    /\ h \notin HashesUsed
    /\ xxhash' = [j \in DOMAIN xxhash \cup {k} |-> IF j = k THEN h ELSE xxhash[j]]
    /\ hthr' = [hthr EXCEPT ![g] = [IdleHash EXCEPT !.pc = "wlock", !.op = "insert",
                                       !.key = k, !.value = HValue(k),
                                       !.ins = hthr[g].ins]]
    /\ UNCHANGED <<dbVars, pagerVars, btVars, metaFile, hashTable, bucketPages, rwlock>>

\* A goroutine calls Find with a key of an Insert that was called before.
HCallFind(g, k) ==
    /\ hthr[g].pc = "idle"
    /\ k \in DOMAIN xxhash
    /\ hthr' = [hthr EXCEPT ![g] = [IdleHash EXCEPT !.pc = "rlock", !.op = "find",
                                       !.key = k,
                                       !.had = \E e \in Inserted : e.key = k,
                                       !.ins = hthr[g].ins]]
    /\ UNCHANGED <<dbVars, pagerVars, btVars, metaFile, hashTable, bucketPages, rwlock, xxhash>>

\* table.WLock() of Insert.
HWLock(g) ==
    /\ hthr[g].pc = "wlock"
    /\ rwlock.writer = "none" /\ rwlock.readers = {}
    /\ rwlock' = [rwlock EXCEPT !.writer = g]
    /\ hthr' = [hthr EXCEPT ![g].pc = "insert"]
    /\ UNCHANGED <<dbVars, pagerVars, btVars, metaFile, hashTable, bucketPages, xxhash>>

\* Insert from GetBucket to its return and the deferred WUnlock.
HInsert(g) ==
    LET r == HashTableInsert(hashTable, bucketPages, hthr[g].key, hthr[g].value)
    IN  /\ hthr[g].pc = "insert"
        /\ hashTable' = r.table
        /\ bucketPages' = r.pages
        /\ rwlock' = [rwlock EXCEPT !.writer = "none"]
        /\ hthr' = [hthr EXCEPT ![g] =
                       [IdleHash EXCEPT !.err = r.err,
                                        !.ins = IF r.err THEN hthr[g].ins
                                                ELSE hthr[g].ins \cup
                                                     {HashEntry(hthr[g].key, hthr[g].value)}]]
        /\ UNCHANGED <<dbVars, pagerVars, btVars, metaFile, xxhash>>

\* table.RLock() of Find.
HRLock(g) ==
    /\ hthr[g].pc = "rlock"
    /\ rwlock.writer = "none"
    /\ rwlock' = [rwlock EXCEPT !.readers = @ \cup {g}]
    /\ hthr' = [hthr EXCEPT ![g].pc = "find"]
    /\ UNCHANGED <<dbVars, pagerVars, btVars, metaFile, hashTable, bucketPages, xxhash>>

\* Find from Hasher to its return and the deferred RUnlock.
HFind(g) ==
    /\ hthr[g].pc = "find"
    /\ rwlock' = [rwlock EXCEPT !.readers = @ \ {g}]
    /\ hthr' = [hthr EXCEPT ![g].pc = "idle",
                            ![g].got = HashTableFind(hashTable, bucketPages, hthr[g].key)]
    /\ UNCHANGED <<dbVars, pagerVars, btVars, metaFile, hashTable, bucketPages, xxhash>>

\* A new table, and two goroutines in no call.
InitHash ==
    /\ InitTM
    /\ InitFiles
    /\ NoLm
    /\ NoPager
    /\ pages = <<>> /\ latch = <<>> /\ thr = <<>> /\ oracle = <<>> /\ ret = <<>>
    /\ hashTable = NewHashTable.table
    /\ bucketPages = NewHashTable.pages
    /\ rwlock = [writer |-> "none", readers |-> {}]
    /\ hthr = [g \in Goroutines |-> IdleHash]
    /\ xxhash = <<>>
    /\ metaFile = <<>>

NextHash ==
    \E g \in Goroutines :
        \/ \E k \in HKeys(g), h \in HashVals : HCallInsert(g, k, h)
        \/ \E k \in HKeys("g1") \cup HKeys("g2") : HCallFind(g, k)
        \/ HWLock(g)
        \/ HInsert(g)
        \/ HRLock(g)
        \/ HFind(g)

SpecHash == InitHash /\ [][NextHash]_vars

(***************************************************************************)
(* Closing and reopening the hash index.  Close writes the depth of the    *)
(* table and then the page number of every slot into pages of the .meta    *)
(* file, ten bytes a number; OpenTable of an index with pages reads them   *)
(* back.  A meta page holds MetaSlots numbers (five instead of the 409 of  *)
(* a 4096-byte page).                                                      *)
(***************************************************************************)
MetaSlots == 5

\* Pages the .meta file grows to.
MaxMetaPages == 3

\* binary.PutVarint into a buffer of MaxVarintLen64 bytes and binary.Varint
\* of it: the zigzag code of the number, and the number of a code.
PutVarint(x) == IF x >= 0 THEN 2 * x ELSE -2 * x - 1
Varint(u) == IF u % 2 = 0 THEN u \div 2 ELSE -((u + 1) \div 2)

\* A page of the file that was never written.
BlankMetaPage == [i \in 1..MetaSlots |-> PutVarint(0)]

\* The loop of WriteHashTable: the numbers go into the page pn at place
\* bytesWritten, and into a page more when the page is full.
RECURSIVE writeNumbers(_, _, _, _)
writeNumbers(file, pn, bytesWritten, numbers) ==
    IF numbers = <<>> THEN file
    ELSE IF bytesWritten + 1 > MetaSlots
         THEN writeNumbers(Append(file, BlankMetaPage), Len(file), 0, numbers)
         ELSE writeNumbers([file EXCEPT ![pn + 1][bytesWritten + 1] = PutVarint(Head(numbers))],
                           pn, bytesWritten + 1, Tail(numbers))

\* WriteHashTable: the pager of the .meta file is opened on the file as it
\* is, and the first page written is the one GetFreePN gives.
WriteHashTable(file, table) ==
    writeNumbers(Append(file, BlankMetaPage), Len(file), 0, <<table.depth>> \o table.buckets)

\* The loop of ReadHashTable: numHashes page numbers from page pn on, place
\* bytesRead; a page past the end of the file is a blank one.
RECURSIVE readNumbers(_, _, _, _)
readNumbers(file, pn, bytesRead, numHashes) ==
    IF numHashes = 0 THEN <<>>
    ELSE IF bytesRead + 1 > MetaSlots THEN readNumbers(file, pn + 1, 0, numHashes)
    ELSE <<Varint((IF pn < Len(file) THEN file[pn + 1] ELSE BlankMetaPage)[bytesRead + 1])>>
             \o readNumbers(file, pn, bytesRead + 1, numHashes - 1)

\* ReadHashTable: depth and directory, read from page 0 on.
ReadHashTable(file) ==
    LET depth == Varint(file[1][1])
    IN  [depth |-> depth, buckets |-> readNumbers(file, 0, 1, powInt(2, depth))]

\* HashIndex.Close while no call is under way: WriteHashTable; the bucket
\* pages are flushed by the Close of their pager.
HClose ==
    /\ \A g \in Goroutines : hthr[g].pc = "idle"
    /\ Len(WriteHashTable(metaFile, hashTable)) <= MaxMetaPages
    /\ metaFile' = WriteHashTable(metaFile, hashTable)
    /\ hthr' = [g \in Goroutines |-> [hthr[g] EXCEPT !.pc = "closed"]]
    /\ UNCHANGED <<dbVars, pagerVars, btVars, hashTable, bucketPages, rwlock, xxhash>>

\* OpenTable of the closed index: its file has pages, so ReadHashTable.
HOpen ==
    /\ \A g \in Goroutines : hthr[g].pc = "closed"
    /\ hashTable' = ReadHashTable(metaFile)
    /\ hthr' = [g \in Goroutines |-> [hthr[g] EXCEPT !.pc = "idle"]]
    /\ UNCHANGED <<dbVars, pagerVars, btVars, bucketPages, rwlock, xxhash, metaFile>>

\* Inserts, one after another, and closes and reopens between them.
NextMeta ==
    \/ \E g \in Goroutines :
          \/ \E k \in HKeys(g), h \in HashVals : HCallInsert(g, k, h)
          \/ HWLock(g)
          \/ HInsert(g)
    \/ HClose
    \/ HOpen

SpecMeta == InitHash /\ [][NextMeta]_vars

(***************************************************************************)
(* The pager (pkg/pager).  GetPage and Put run under the page table mutex  *)
(* from their first line to their return, so each is one step.  The pool   *)
(* of the pager under test has PoolFrames frames (two instead of the 32    *)
(* of config.NumPages); the content of a page is one number.  Callers ask  *)
(* for a page of the file or for the page GetFreePN names, as the indexes  *)
(* and the pager commands do, and call Put and Update on pages they have   *)
(* pinned.                                                                 *)
(***************************************************************************)
PoolFrames == 2
NOPAGE == -1

\* Pages the file of the pager grows to.
MaxPages == 3

\* Pins the callers hold at a time, on all pages together.
MaxPins == 3

\* Failures of the disk in a run with a failing disk.
MaxDiskFaults == 1

\* Updates of a run, of all pages together.
MaxWrites == 2

\* What the n-th Update of a page writes into it: no two writes put the same
\* bytes, and none the zeroes a frame of a new pager holds.
PData(pn, n) == 10 * pn + n

\* The frames of NewPager, all in the free list, and the file Open created.
NewPager ==
    [nPages |-> 0,
     hasFile |-> TRUE,
     freeList |-> [i \in 1..PoolFrames |-> i],
     unpinnedList |-> <<>>,
     pinnedList |-> <<>>,
     pageTable |-> [pn \in 0..(MaxPages - 1) |-> 0],
     page |-> [f \in 1..PoolFrames |->
                  [pagenum |-> NOPAGE, pinCount |-> 0, dirty |-> FALSE, data |-> 0]]]

\* link.PopSelf(): the list without the frame.
PopSelf(list, f) == SelectSeq(list, LAMBDA x : x # f)

\* The frame is a link of the list.
InList(list, f) == \E i \in 1..Len(list) : list[i] = f

\* file.WriteAt of one page at pagenum * PAGESIZE; a file too short grows,
\* zeroes in between.
WriteAt(fl, pagenum, data) ==
    [i \in 1..(IF pagenum + 1 > Len(fl) THEN pagenum + 1 ELSE Len(fl)) |->
        IF i = pagenum + 1 THEN data ELSE IF i <= Len(fl) THEN fl[i] ELSE 0]

\* FlushPage that clears the flag and writes nothing.
FlushPageDrop(pg, fl, f, wok) ==
    IF pg.hasFile /\ pg.page[f].dirty
    THEN [pager |-> [pg EXCEPT !.page[f].dirty = FALSE], file |-> fl]
    ELSE [pager |-> pg, file |-> fl]

\* Pager.FlushPage of frame f; wok: the write to the disk succeeds.
FlushPage(pg, fl, f, wok) ==
    IF pg.hasFile /\ pg.page[f].dirty
    THEN [pager |-> [pg EXCEPT !.page[f].dirty = FALSE],
          file |-> IF wok THEN WriteAt(fl, pg.page[f].pagenum, pg.page[f].data) ELSE fl]
    ELSE [pager |-> pg, file |-> fl]

\* NewPage that takes its victim from the tail of the unpinned list.
NewPageTail(pg, fl, pagenum, wok) ==
    LET claim(q, f) == [q EXCEPT !.page[f].pagenum = pagenum, !.page[f].dirty = FALSE,
                                 !.page[f].pinCount = 1]
    IN  IF pg.freeList # <<>>
        THEN [pager |-> claim([pg EXCEPT !.freeList = Tail(@)], Head(pg.freeList)),
              file |-> fl, frame |-> Head(pg.freeList), evicted |-> NOPAGE, err |-> "none"]
        ELSE IF pg.hasFile /\ pg.unpinnedList # <<>>
        THEN LET f == pg.unpinnedList[Len(pg.unpinnedList)]
                 r == FlushPage([pg EXCEPT !.unpinnedList = PopSelf(@, f)], fl, f, wok)
             IN  [pager |-> claim([r.pager EXCEPT !.pageTable[pg.page[f].pagenum] = 0], f),
                  file |-> r.file, frame |-> f, evicted |-> pg.page[f].pagenum,
                  err |-> "none"]
        ELSE [pager |-> pg, file |-> fl, frame |-> 0, evicted |-> NOPAGE,
              err |-> "no available pages"]

\* Pager.NewPage: a frame from the free list, or the head of the unpinned
\* list, flushed and taken out of the page table.
NewPage(pg, fl, pagenum, wok) ==
    LET claim(q, f) == [q EXCEPT !.page[f].pagenum = pagenum, !.page[f].dirty = FALSE,
                                 !.page[f].pinCount = 1]
    IN  IF pg.freeList # <<>>
        THEN [pager |-> claim([pg EXCEPT !.freeList = Tail(@)], Head(pg.freeList)),
              file |-> fl, frame |-> Head(pg.freeList), evicted |-> NOPAGE, err |-> "none"]
        ELSE IF pg.hasFile /\ pg.unpinnedList # <<>>
        THEN LET f == Head(pg.unpinnedList)
                 r == FlushPage([pg EXCEPT !.unpinnedList = PopSelf(@, f)], fl, f, wok)
             IN  [pager |-> claim([r.pager EXCEPT !.pageTable[pg.page[f].pagenum] = 0], f),
                  file |-> r.file, frame |-> f, evicted |-> pg.page[f].pagenum,
                  err |-> "none"]
        ELSE [pager |-> pg, file |-> fl, frame |-> 0, evicted |-> NOPAGE,
              err |-> "no available pages"]

\* Pager.GetPage; wok and rok: the write of the victim and the read of the
\* page succeed.  A read that ends at the end of the file leaves the bytes
\* of the frame as they are.
GetPage(pg, fl, pagenum, wok, rok) ==
    IF pagenum < 0
    THEN [pager |-> pg, file |-> fl, frame |-> 0, evicted |-> NOPAGE,
          err |-> "invalid pagenum"]
    ELSE IF pg.pageTable[pagenum] # 0
    THEN LET f == pg.pageTable[pagenum]
             pg1 == IF InList(pg.unpinnedList, f)
                    THEN [pg EXCEPT !.unpinnedList = PopSelf(@, f),
                                    !.pinnedList = Append(@, f)]
                    ELSE pg
         IN  [pager |-> [pg1 EXCEPT !.page[f].pinCount = @ + 1], file |-> fl,
              frame |-> f, evicted |-> NOPAGE, err |-> "none"]
    ELSE LET n == NewPage(pg, fl, pagenum, wok)
             f == n.frame
         IN  IF n.err # "none" THEN n
             ELSE IF pagenum >= n.pager.nPages
             THEN [n EXCEPT !.pager = [n.pager EXCEPT !.nPages = @ + 1,
                                                      !.page[f].dirty = TRUE,
                                                      !.pinnedList = Append(@, f),
                                                      !.pageTable[pagenum] = f]]
             ELSE IF ~rok
             THEN [n EXCEPT !.pager = [n.pager EXCEPT !.freeList = Append(@, f)],
                            !.frame = 0, !.err = "read"]
             ELSE [n EXCEPT !.pager = [n.pager EXCEPT
                                          !.page[f].data = IF pagenum < Len(n.file)
                                                           THEN n.file[pagenum + 1] ELSE @,
                                          !.pinnedList = Append(@, f),
                                          !.pageTable[pagenum] = f]]

\* Put that leaves the frame in the pinned list.
PutStay(pg, f) == [pg EXCEPT !.page[f].pinCount = @ - 1]

\* Page.Put of the page in frame f.
Put(pg, f) ==
    LET pg1 == [pg EXCEPT !.page[f].pinCount = @ - 1]
        link == pg.pageTable[pg.page[f].pagenum]
    IN  IF pg1.page[f].pinCount = 0
        THEN [pg1 EXCEPT !.freeList = PopSelf(@, link),
                         !.pinnedList = PopSelf(@, link),
                         !.unpinnedList = Append(PopSelf(@, link), f),
                         !.pageTable[pg.page[f].pagenum] = f]
        ELSE pg1

\* Pager.FlushAllPages: the pinned list, then the unpinned list.
RECURSIVE flushList(_, _, _, _)
flushList(pg, fl, list, wok) ==
    IF list = <<>> THEN [pager |-> pg, file |-> fl]
    ELSE LET r == FlushPage(pg, fl, Head(list), wok)
         IN  flushList(r.pager, r.file, Tail(list), wok)

FlushAllPages(pg, fl, wok) == flushList(pg, fl, pg.pinnedList \o pg.unpinnedList, wok)

\* What the callers know: the pins each of them holds on a page, the pages
\* they updated, how often and with what, the pages in the order of their
\* last Put, and the failures of the disk so far.
NoPagerLog ==
    [pins |-> [pn \in 0..(MaxPages - 1) |-> 0],
     writes |-> [pn \in 0..(MaxPages - 1) |-> 0],
     written |-> [pn \in 0..(MaxPages - 1) |-> 0],
     order |-> <<>>,
     faults |-> 0]

NoPagerRet == [op |-> "none", pn |-> NOPAGE, err |-> "none", evicted |-> NOPAGE, data |-> 0]

RECURSIVE SumTo(_, _)
SumTo(count, pn) == IF pn < 0 THEN 0 ELSE count[pn] + SumTo(count, pn - 1)

\* Pages of the file, and the page GetFreePN names while the file may grow.
Askable == {pn \in 0..(MaxPages - 1) : pn <= pager.nPages}

\* pager.GetPage(pn) by a caller.
PGetPage(pn, wok, rok) ==
    /\ pn \in Askable
    /\ SumTo(pagerLog.pins, MaxPages - 1) < MaxPins
    /\ (wok /\ rok) \/ pagerLog.faults < MaxDiskFaults
    /\ LET r == GetPage(pager, pagerFile, pn, wok, rok)
       IN  /\ pager' = r.pager
           /\ pagerFile' = r.file
           /\ pagerRet' = [op |-> "get", pn |-> pn, err |-> r.err, evicted |-> r.evicted,
                           data |-> IF r.err = "none" THEN r.pager.page[r.frame].data ELSE 0]
           /\ pagerLog' = [pagerLog EXCEPT
                              !.pins[pn] = IF r.err = "none" THEN @ + 1 ELSE @,
                              !.faults = IF wok /\ rok THEN @ ELSE @ + 1]
    /\ UNCHANGED <<dbVars, btVars, hashVars>>

\* page.Put() by a caller that holds a pin on the page.
PPut(pn) ==
    /\ pagerLog.pins[pn] > 0
    /\ pager' = Put(pager, pager.pageTable[pn])
    /\ pagerRet' = [NoPagerRet EXCEPT !.op = "put", !.pn = pn]
    /\ pagerLog' = [pagerLog EXCEPT !.pins[pn] = @ - 1,
                                    !.order = Append(PopSelf(@, pn), pn)]
    /\ UNCHANGED <<dbVars, btVars, hashVars, pagerFile>>

\* page.Update(data, 0, size) by a caller that holds a pin on the page.
PUpdate(pn) ==
    /\ pagerLog.pins[pn] > 0
    /\ SumTo(pagerLog.writes, MaxPages - 1) < MaxWrites
    /\ LET d == PData(pn, pagerLog.writes[pn] + 1)
       IN  /\ pager' = [pager EXCEPT !.page[pager.pageTable[pn]].dirty = TRUE,
                                     !.page[pager.pageTable[pn]].data = d]
           /\ pagerRet' = [NoPagerRet EXCEPT !.op = "update", !.pn = pn, !.data = d]
           /\ pagerLog' = [pagerLog EXCEPT !.writes[pn] = @ + 1, !.written[pn] = d]
    /\ UNCHANGED <<dbVars, btVars, hashVars, pagerFile>>

\* pager.FlushPage(page) by a caller that holds a pin on the page.
PFlushPage(pn, wok) ==
    /\ pagerLog.pins[pn] > 0
    /\ pager.page[pager.pageTable[pn]].dirty
    /\ wok \/ pagerLog.faults < MaxDiskFaults
    /\ LET r == FlushPage(pager, pagerFile, pager.pageTable[pn], wok)
       IN  /\ pager' = r.pager
           /\ pagerFile' = r.file
    /\ pagerRet' = [NoPagerRet EXCEPT !.op = "flush", !.pn = pn]
    /\ pagerLog' = [pagerLog EXCEPT !.faults = IF wok THEN @ ELSE @ + 1]
    /\ UNCHANGED <<dbVars, btVars, hashVars>>

\* pager.FlushAllPages().
PFlushAllPages ==
    /\ \E f \in 1..PoolFrames :
          pager.page[f].dirty /\ (InList(pager.pinnedList, f) \/ InList(pager.unpinnedList, f))
    /\ LET r == FlushAllPages(pager, pagerFile, TRUE)
       IN  /\ pager' = r.pager
           /\ pagerFile' = r.file
    /\ pagerRet' = [NoPagerRet EXCEPT !.op = "flushall"]
    /\ UNCHANGED <<dbVars, btVars, hashVars, pagerLog>>

InitPager ==
    /\ InitTM
    /\ InitFiles
    /\ NoLm
    /\ pages = <<>> /\ latch = <<>> /\ thr = <<>> /\ oracle = <<>> /\ ret = <<>>
    /\ NoHash
    /\ pager = NewPager
    /\ pagerFile = <<>>
    /\ pagerRet = NoPagerRet
    /\ pagerLog = NoPagerLog

\* The pager on a disk that does not fail.
NextPager ==
    \/ \E pn \in 0..(MaxPages - 1) : PGetPage(pn, TRUE, TRUE)
    \/ \E pn \in 0..(MaxPages - 1) : PPut(pn)
    \/ \E pn \in 0..(MaxPages - 1) : PUpdate(pn)
    \/ \E pn \in 0..(MaxPages - 1) : PFlushPage(pn, TRUE)
    \/ PFlushAllPages

SpecPager == InitPager /\ [][NextPager]_vars

\* The pager on a disk where a write or a read may fail.
NextPagerFault ==
    \/ \E pn \in 0..(MaxPages - 1), wok \in BOOLEAN, rok \in BOOLEAN : PGetPage(pn, wok, rok)
    \/ \E pn \in 0..(MaxPages - 1) : PPut(pn)
    \/ \E pn \in 0..(MaxPages - 1) : PUpdate(pn)
    \/ \E pn \in 0..(MaxPages - 1), wok \in BOOLEAN : PFlushPage(pn, wok)
    \/ PFlushAllPages

SpecPagerFault == InitPager /\ [][NextPagerFault]_vars

(***************************************************************************)
(* Properties of the transaction manager.                                  *)
(***************************************************************************)
\* The clients inside the reader/writer lock of r.
HoldersOf(r) == rwReaders[r] \cup rwWriters[r]

\* The type with which a client inside the lock of r asked for it.
HeldMode(c, r) == IF resources[c][r] # NoLock THEN resources[c][r] ELSE req[c].mode

\* C1: two different transactions are never inside the lock-manager lock of
\* the same resource at the same time, unless both asked for a read lock.
C1_MutualExclusion ==
    \A r \in Keys : \A c1, c2 \in HoldersOf(r) :
        c1 # c2 => HeldMode(c1, r) = R_LOCK /\ HeldMode(c2, r) = R_LOCK

\* C1 at work: one transaction holds a write lock that its Lock call has
\* returned, and another is inside lm.Lock for the same resource.
C1_Witness ==
    \E r \in Keys : \E c1, c2 \in Clients :
        /\ c1 # c2
        /\ c1 \in rwWriters[r] /\ resources[c1][r] = W_LOCK /\ pc[c1] = "idle"
        /\ pc[c2] \in {"l_lm", "l_rwait"} /\ req[c2].key = r

\* c is inside lm.Lock for a resource that d holds with a conflicting type.
BlockedOn(c, d) ==
    /\ c # d
    /\ pc[c] \in {"l_lm", "l_wwait", "l_rwait"}
    /\ resources[d][req[c].key] # NoLock
    /\ d \in HoldersOf(req[c].key)
    /\ (resources[d][req[c].key] = W_LOCK \/ req[c].mode = W_LOCK)

\* C2: there is no set of transactions each of which is blocked inside Lock
\* on a resource that another transaction of the set holds.
C2_NoDeadlock ==
    ~ \E S \in SUBSET Clients :
        S # {} /\ \A c \in S : \E d \in S : BlockedOn(c, d)

S3Done == \A c \in Clients : pc[c] = "idle" /\ script[c] = <<>>

\* C3: when both crossing requests have returned and both transactions have
\* committed, exactly one of the two requests got Deadlock and the other
\* succeeded.
C3_ExactlyOneDeadlock ==
    S3Done =>
        \E c \in Clients : \A d \in Clients :
            result[d] = IF d = c THEN "deadlock" ELSE "ok"

RECURSIVE Reach(_, _)
\* The nodes reachable from the set S along the edges of g.
Reach(g, S) ==
    LET T == S \cup {g[i].to : i \in {j \in 1..Len(g) : g[j].from \in S}} IN
    IF T = S THEN S ELSE Reach(g, T)

\* The directed graph of g has a cycle.
HasCycle(g) ==
    \E i \in 1..Len(g) : g[i].from \in Reach(g, {g[i].to})

\* C4: DetectCycle answers true exactly when the graph has a directed cycle.
C4_DetectCycleExact ==
    detected # "none" => (detected = "true" <=> HasCycle(edges))

(***************************************************************************)
(* Properties of the write-ahead log and of recovery.                      *)
(***************************************************************************)
\* The Edit record at position i of l was written by a transaction: the
\* Start record of its id precedes it and no Commit record of that id lies
\* between the two.
InTx(l, i) ==
    \E j \in 1..(i - 1) :
        /\ l[j] = startLog(l[i].id)
        /\ \A m \in (j + 1)..(i - 1) : l[m] # commitLog(l[i].id)

\* Every change of the table was made inside a transaction.
AllInTx(l) == \A i \in 1..Len(l) : l[i].t = "edit" => InTx(l, i)

\* The process has crashed and has been started again.
Restarted == crashes >= 1 /\ status # "down"

\* C5: after a crash at any point and Recover, the table holds exactly the
\* effects of the transactions whose Commit record is in the log and none of
\* the effects of the transactions that were running.
C5_CommittedSurvive ==
    (Restarted /\ AllInTx(log)) => (status = "running" /\ mem.rows = durable)

\* C6: whenever a statement executed through the handlers has changed the
\* table, the Edit record that describes it is in the log file.
C6_WriteAhead ==
    \A c \in Clients :
        lastApplied[c] # NoRec => \E i \in 1..Len(log) : log[i] = lastApplied[c]

\* C6 at work: a statement has changed the table while the other client's
\* Edit record, written but not yet applied, is in the log too.
C6_Witness ==
    \E c, d \in Clients :
        /\ c # d
        /\ lastApplied[c] # NoRec
        /\ hpc[d] = "edit"

\* C7: when Rollback has undone the Edits of a transaction and is about to
\* commit it, every key the transaction changed is in the state it had
\* before the transaction (at its Start, or when the transaction first
\* changed the key); when tm.Commit has returned, the transaction is gone
\* and holds no lock.  Stated for the runs in which every statement belongs
\* to a transaction.
C7_RollbackRestores ==
    \A c \in Clients :
        (hpc[c] = "rb_commit" /\ AllInTx(log)) =>
            /\ script[c] # <<>> =>
                   \A k \in pre[c].keys :
                       mem.rows[k] \in {pre[c].start[k], pre[c].rows[k]}
            /\ Returned(c) =>
                   c \notin transactions /\ \A k \in Keys : c \notin HoldersOf(k)

\* The log of Insert (1,1); Checkpoint; Begin Tx, all by one client.
S5Log ==
    <<tableLog, editLog(Solo, INSERT_ACTION, 1, 0, 1), checkpointLog({Solo}),
      startLog(Solo)>>

\* The log starts with the records of the sequence.
S5Run == Len(log) >= Len(S5Log) /\ SubSeq(log, 1, Len(S5Log)) = S5Log

\* C8: in the sequence Insert (1,1), Checkpoint, Begin Tx, update (1,2),
\* crash, every command completes (a call of the transaction manager that
\* the client is in can go on), and after the restart recovery has
\* terminated with key 1 = 1.
C8_CheckpointScenario ==
    S5Run =>
        /\ (status = "running" /\ pc[Solo] # "idle") => ENABLED TMStepSolo
        /\ Restarted => (status = "running" /\ mem.rows[1] = 1)

\* C9: after a crash at a step of Checkpoint, the next startup restores the
\* effects of every committed transaction.
C9_CheckpointCrash ==
    (Restarted /\ crashedIn # "none" /\ AllInTx(log)) =>
        (status = "running" /\ mem.rows = durable)

\* C10: a second startup right after the first recovery leaves the table the
\* first recovery left.
C10_RecoverTwice ==
    (crashes >= 2 /\ status # "down") => (status = "running" /\ mem = recovered.tbl)

\* C10 at work: the first recovery undid a transaction, and the second one
\* has run.
C10_Witness ==
    /\ crashes >= 2 /\ status = "running"
    /\ recovered.valid /\ recovered.undid
    /\ mem.ex

\* The last statement of c has returned to the REPL with Deadlock or
\* CannotUpgrade.
FailedStmt(c) ==
    /\ status = "running"
    /\ pc[c] = "idle" /\ script[c] = <<>> /\ hpc[c] = "none"
    /\ result[c] \in {"deadlock", "upgrade"}

\* C11: once a statement of a transaction has failed with Deadlock or
\* CannotUpgrade and its handler has returned, the transaction is rolled
\* back: it is gone from the transaction manager and holds no lock.
C11_FailedStmtRollsBack ==
    \A c \in Clients :
        FailedStmt(c) =>
            c \notin transactions /\ \A k \in Keys : c \notin HoldersOf(k)


(***************************************************************************)
(* Properties of the B+ tree.                                              *)
(***************************************************************************)
\* The internal children of the root.
InnerChildren ==
    IF Page(pages, ROOT_PN).leaf THEN {}
    ELSE {i \in 1..Len(Page(pages, ROOT_PN).pns) :
              ~Page(pages, Page(pages, ROOT_PN).pns[i]).leaf}

\* C12: a key that was inserted with success, and not deleted since, is
\* found with the value it was given, whatever leaf, internal and root
\* splits the later inserts of other keys caused; find returns that entry.
C12_InsertFind ==
    /\ \A k \in BKeys :
          oracle[k] # Absent => Find(pages, k) = [found |-> TRUE, value |-> oracle[k]]
    /\ ret.op = "find" /\ oracle[ret.key] # Absent =>
          ret.err = "none" /\ ret.value = oracle[ret.key]

\* A find that returns an entry of a tree three levels high, in which an
\* internal node below the root has split.
C12_Witness ==
    /\ ret.op = "find" /\ ret.err = "none"
    /\ Cardinality(InnerChildren) >= 3

\* The keys the tree holds by the operations so far.
Present == {k \in DOMAIN oracle : oracle[k] # Absent}

\* The entries e are those of the keys in ks, each once, in ascending key order.
ExactlyAscending(e, ks) ==
    /\ \A i, j \in 1..Len(e) : i < j => e[i].key < e[j].key
    /\ {e[i].key : i \in 1..Len(e)} = ks
    /\ \A i \in 1..Len(e) : e[i].value = oracle[e[i].key]

\* The leaves of the tree that hold no entry.
EmptyLeaves == {i \in 1..Len(pages) : pages[i].leaf /\ pages[i].keys = <<>>}

\* C13: after any sequence of inserts and deletes, select returns every key
\* the tree holds exactly once, in strictly ascending key order.
C13_SelectAscending ==
    /\ ExactlyAscending(Select(pages), Present)
    /\ ret.op = "select" => ExactlyAscending(ret.entries, Present)

\* A select over a tree three levels high in which an internal node below
\* the root has split and deletes have emptied a leaf between two others.
C13_Witness ==
    /\ ret.op = "select" /\ Len(ret.entries) >= 3
    /\ Cardinality(InnerChildren) >= 3
    /\ \E i \in EmptyLeaves : pages[i].right >= 0

\* Every goroutine has made its calls and is back from them.
AllReturned == \A g \in Goroutines : thr[g].pc = "done" /\ thr[g].n = MaxBTOps

\* The goroutines whose last call was an insert.
Inserters == {g \in Goroutines : thr[g].op = "insert"}

\* C14: when goroutines insert disjoint keys into one tree at the same
\* time and every insert succeeds (as the claim has it; here it is taken as
\* given), afterwards every inserted key is found with its value and select
\* returns as many entries as the tree was given.
C14_ConcurrentInserts ==
    /\ AllReturned
    /\ Inserters = Goroutines
    /\ \A g \in Goroutines : thr[g].err = "none"
    =>
    /\ \A g \in Goroutines :
           Find(pages, thr[g].key) = [found |-> TRUE, value |-> thr[g].value]
    /\ Len(Select(pages)) = Cardinality(Present)

\* The pages of the subtree under page pn, pn itself left out; everything
\* is under SUPER_NODE.
RECURSIVE Below(_, _)
Below(ps, pn) ==
    IF pn = SUPER_NODE THEN 0..(Len(ps) - 1)
    ELSE IF Page(ps, pn).leaf THEN {}
    ELSE UNION {{Page(ps, pn).pns[i]} \cup Below(ps, Page(ps, pn).pns[i]) :
                   i \in 1..Len(Page(ps, pn).pns)}

\* g is in an insert and about to latch the next child, having latched a
\* node that cannot split.
AtSafeNode(g) ==
    /\ thr[g].op = "insert" /\ thr[g].pc = "child"
    /\ Len(Page(pages, thr[g].path[Len(thr[g].path) - 1]).keys)
           < Capacity(Page(pages, thr[g].path[Len(thr[g].path) - 1]))

\* g takes the step of its insert at the node it has just latched, and the
\* node cannot split.
VisitsSafeNode(g) ==
    /\ thr[g].op = "insert" /\ thr[g].pc = "visit" /\ thr'[g] # thr[g]
    /\ Len(Page(pages, thr[g].path[Len(thr[g].path)]).keys)
           < Capacity(Page(pages, thr[g].path[Len(thr[g].path)]))

\* C15: an insert that has latched a node that cannot split holds no latch
\* of an ancestor, SUPER_NODE included, when it goes on from that node; and
\* a goroutine never gets the latch of a node while it holds the latch of a
\* node below it.
C15_LatchCrabbing ==
    /\ [][\A g \in Goroutines :
              VisitsSafeNode(g) => latch'[g] \subseteq {thr[g].path[Len(thr[g].path)]}]_vars
    /\ [][\A g \in Goroutines : \A x \in latch'[g] \ latch[g] :
              latch[g] \cap Below(pages, x) = {}]_vars

\* An insert that met a root that can split and kept SUPER_NODE, then
\* latched a child that cannot split, and now holds the child alone.
C15_Witness ==
    \E g \in Goroutines :
        /\ AtSafeNode(g) /\ Len(thr[g].path) = 3
        /\ Len(Page(pages, ROOT_PN).keys) = KEYS_PER_INTERNAL_NODE
        /\ latch[g] = {thr[g].path[2]}

\* C16: a call on the tree that has returned, with an error or without,
\* holds no latch of a node and not the latch of SUPER_NODE.
C16_ReturnHoldsNoLatch ==
    /\ latch[Leaked] = {}
    /\ \A g \in Goroutines : thr[g].pc \in {"idle", "done"} => latch[g] = {}

\* C17: an insert of a key the tree holds and an update of a key it does not
\* hold return an error and leave every page of the tree as it was: entries,
\* key counts and sibling pointers.
C17_FailedWriteKeepsTree ==
    [][ret'.err \in {"duplicate", "missing"} => pages' = pages]_vars

\* An insert of a key that a tree three levels high holds, at a value other
\* than the one it holds, has returned its error.
C17_Witness ==
    /\ ret.op = "insert" /\ ret.err = "duplicate"
    /\ oracle[ret.key] # ret.value
    /\ Cardinality(InnerChildren) >= 2

\* C18: TableFindRange(lo, hi) returns exactly the entries of the tree with
\* lo <= key < hi, in ascending key order (whether it also returned an
\* error is left aside here).
C18_FindRangeExact ==
    ret.op = "range" =>
        ExactlyAscending(ret.entries, {k \in Present : ret.key <= k /\ k < ret.value})

\* C19: when no call on the tree is under way, every leaf holds at most
\* ENTRIES_PER_LEAF_NODE entries and every internal node at most
\* KEYS_PER_INTERNAL_NODE keys.
C19_WithinCapacity ==
    (\A g \in DOMAIN thr : thr[g].pc \in {"idle", "done"}) =>
        \A i \in 1..Len(pages) : Len(pages[i].keys) <= Capacity(pages[i])

\* C20: every key that an insert has put into the hash index, whichever
\* goroutine made it and whatever splits and doublings followed, is in the
\* bucket that the slot Hasher(key, depth) of the directory points to, and
\* Find finds it with the value it was inserted with; a Find that a
\* goroutine called for such a key has returned that entry.
C20_HashInsertFind ==
    /\ \A e \in Inserted :
          /\ \E i \in 1..Len(bucketPages[hashTable.buckets[Hasher(e.key, hashTable.depth) + 1] + 1].entries) :
                bucketPages[hashTable.buckets[Hasher(e.key, hashTable.depth) + 1] + 1].entries[i] = e
          /\ HashTableFind(hashTable, bucketPages, e.key) = [found |-> TRUE, value |-> e.value]
    /\ \A g \in Goroutines :
          hthr[g].pc = "idle" /\ hthr[g].op = "find" /\ hthr[g].had =>
              /\ hthr[g].got.found
              /\ HashEntry(hthr[g].key, hthr[g].got.value) \in Inserted

\* A Find has returned an entry of a table that doubled twice, into which
\* both goroutines have inserted, and in which some bucket is less deep
\* than the table and another was split without a doubling.
C20_Witness ==
    /\ \E g \in Goroutines :
          hthr[g].pc = "idle" /\ hthr[g].op = "find" /\ hthr[g].had /\ hthr[g].got.found
    /\ \A g \in Goroutines : hthr[g].ins # {}
    /\ hashTable.depth >= NewDepth + 2
    /\ Len(bucketPages) >= powInt(2, NewDepth) + 3
    /\ \E i \in 1..Len(bucketPages) : bucketPages[i].depth < hashTable.depth

\* The bucket that slot i of the directory points to (slots count from 0).
BucketAt(i) == bucketPages[hashTable.buckets[i + 1] + 1]

\* The keys a bucket holds.
KeysOf(bucket) == {bucket.entries[j].key : j \in 1..Len(bucket.entries)}

C22_ReopenRestoresDirectory ==
    [][(\A g \in Goroutines : hthr[g].pc = "closed" /\ hthr'[g].pc = "idle")
           => hashTable' = hashTable]_vars

\* The list a frame is in, as the set of the lists that hold it.
ListsOf(f) ==
    {l \in {"free", "unpinned", "pinned"} :
        InList(IF l = "free" THEN pager.freeList
               ELSE IF l = "unpinned" THEN pager.unpinnedList ELSE pager.pinnedList, f)}

\* The frames the page table maps a page to.
Resident == {pager.pageTable[pn] : pn \in 0..(MaxPages - 1)} \ {0}

\* C23: after any sequence of GetPage and Put calls, Put only on pages the
\* caller has pinned, every frame is in exactly one of the free, unpinned
\* and pinned lists and once in it; a resident frame is in the unpinned list
\* exactly when its pin count is 0 and in the pinned list exactly when its
\* pin count is positive; a frame in the free list is not in the page table.
C23_FrameInOneList ==
    /\ \A f \in 1..PoolFrames :
          /\ Cardinality(ListsOf(f)) = 1
          /\ Len(SelectSeq(pager.freeList \o pager.unpinnedList \o pager.pinnedList,
                           LAMBDA x : x = f)) = 1
          /\ "free" \in ListsOf(f) => f \notin Resident
    /\ \A f \in Resident :
          /\ pager.pageTable[pager.page[f].pagenum] = f
          /\ pager.page[f].pinCount >= 0
          /\ "unpinned" \in ListsOf(f) <=> pager.page[f].pinCount = 0
          /\ "pinned" \in ListsOf(f) <=> pager.page[f].pinCount > 0

\* After a Put every frame holds a page, one of them read back from the
\* file after its eviction: one is pinned twice and one waits unpinned.
C23_Witness ==
    /\ pagerRet.op = "put"
    /\ \E f \in Resident : pager.page[f].pinCount = 2
    /\ \E f \in Resident : pager.page[f].pinCount = 0
    /\ \E f \in Resident : ~pager.page[f].dirty /\ pager.page[f].data # 0
    /\ Cardinality(Resident) = PoolFrames

\* The pages a step takes out of the page table.
Evicted == {pn \in 0..(MaxPages - 1) : pager.pageTable[pn] # 0 /\ pager'.pageTable[pn] = 0}

\* The resident pages no caller has pinned, and of them the one whose last
\* Put is the oldest.
Unpinned == {pn \in 0..(MaxPages - 1) : pager.pageTable[pn] # 0 /\ pagerLog.pins[pn] = 0}

OldestUnpinned ==
    pagerLog.order[CHOOSE i \in 1..Len(pagerLog.order) :
                      /\ pagerLog.order[i] \in Unpinned
                      /\ \A j \in 1..(i - 1) : pagerLog.order[j] \notin Unpinned]

\* C24: GetPage evicts at most one page, and only a page whose frame is in
\* the unpinned list with pin count 0: the head of that list, which is the
\* page whose pin count reached zero the longest time ago; it fails with "no
\* available pages" only when the free list and the unpinned list are both
\* empty.
C24_EvictsOldestUnpinned ==
    [][/\ \A pn \in Evicted :
             /\ pagerRet'.op = "get"
             /\ Evicted = {pn}
             /\ InList(pager.unpinnedList, pager.pageTable[pn])
             /\ pager.page[pager.pageTable[pn]].pinCount = 0
             /\ pager.pageTable[pn] = Head(pager.unpinnedList)
             /\ pn = OldestUnpinned
       /\ pagerRet'.err = "no available pages" =>
             pager.freeList = <<>> /\ pager.unpinnedList = <<>>]_vars

\* A GetPage evicted one of two unpinned pages: the other one is still
\* resident and unpinned.
C24_Witness ==
    /\ pagerRet.op = "get"
    /\ pagerRet.evicted # NOPAGE
    /\ pager.pageTable[pagerRet.evicted] = 0
    /\ pager.unpinnedList # <<>>

\* The pages the callers have pinned, and the n pages put last.
PinnedPages == {pn \in 0..(MaxPages - 1) : pagerLog.pins[pn] > 0}

LastPut(n) ==
    {pagerLog.order[i] : i \in {j \in 1..Len(pagerLog.order) : j > Len(pagerLog.order) - n}}

\* The content of a page in a plain map from page number to content: what
\* the pager holds for it, in its frame or in the file.
ContentOf(pn) ==
    IF pager.pageTable[pn] # 0 THEN pager.page[pager.pageTable[pn]].data
    ELSE IF pn < Len(pagerFile) THEN pagerFile[pn + 1] ELSE 0

\* C25: with a pool of PoolFrames frames, GetPage fails only while the
\* callers hold pins on PoolFrames pages, so touching (GetPage, then Put)
\* any number of pages one after another raises no error; when no page is
\* pinned the resident pages are the PoolFrames pages touched last; and
\* GetPage(pn) returns what was written to pn last, also after pn was
\* evicted and read back: the pager holds for every page what was written
\* to it last.
C25_PagerIsAMap ==
    /\ pagerRet.op = "get" /\ pagerRet.err # "none" => Cardinality(PinnedPages) = PoolFrames
    /\ PinnedPages = {} =>
          {pn \in 0..(MaxPages - 1) : pager.pageTable[pn] # 0} = LastPut(PoolFrames)
    /\ pagerRet.op = "get" /\ pagerRet.err = "none" /\ pagerLog.writes[pagerRet.pn] > 0 =>
          pagerRet.data = pagerLog.written[pagerRet.pn]
    /\ \A pn \in 0..(MaxPages - 1) :
          pagerLog.writes[pn] > 0 => ContentOf(pn) = pagerLog.written[pn]

\* More pages than the pool has frames were touched; a GetPage evicted a
\* page to read back a page that was written and evicted before, and
\* returned what was written.
C25_Witness ==
    /\ pagerRet.op = "get"
    /\ pagerRet.evicted # NOPAGE
    /\ Len(pagerLog.order) > PoolFrames
    /\ pagerLog.writes[pagerRet.pn] > 0
    /\ pagerRet.data = pagerLog.written[pagerRet.pn]
    /\ pagerLog.writes[pagerRet.evicted] > 0

\* C26: when the write of FlushPage fails the page stays dirty: a resident
\* page that is not dirty is in the file with the content of its frame, and
\* no frame is reused while its content is dirty and unwritten, so the
\* pager holds for every page what was written to it last.
C26_FailedWriteStaysDirty ==
    /\ \A f \in Resident :
          ~pager.page[f].dirty =>
             /\ pager.page[f].pagenum < Len(pagerFile)
             /\ pagerFile[pager.page[f].pagenum + 1] = pager.page[f].data
    /\ \A pn \in 0..(MaxPages - 1) :
          pagerLog.writes[pn] > 0 => ContentOf(pn) = pagerLog.written[pn]

InLockManager(c) == pc[c] \in {"l_lm", "l_rwait", "l_wwait"}

\* C30, as stated: when Lock finds no cycle it removes the edges it added
\* before it calls the lock manager, so while a transaction is blocked
\* inside lockManager.Lock the waits-for graph has no edge that starts at it.
C30_NoEdgeWhileBlocked ==
    \A c \in Clients :
       InLockManager(c) => \A i \in 1..Len(edges) : edges[i].from # Tx(c)

\* C30, as the code has it: the removals are deferred to the return of
\* Lock, so while a transaction is inside lockManager.Lock the graph holds
\* its edge to every conflicting transaction it discovered, and once Lock
\* has returned the graph holds no edge that starts at it.
C30_EdgesRemovedOnReturn ==
    \A c \in Clients :
       /\ InLockManager(c) =>
             \A j \in 1..Len(conf[c]) :
                \E i \in 1..Len(edges) : edges[i] = Edge(Tx(c), conf[c][j])
       /\ pc[c] = "idle" => \A i \in 1..Len(edges) : edges[i].from[1] # c

\* A transaction waits inside lockManager.Lock for a write lock another one
\* holds, found no cycle, and its edge to the holder is in the graph.
C30_Witness ==
    \E c \in Clients :
       /\ pc[c] = "l_wwait"
       /\ conf[c] # <<>>
       /\ ~DetectCycle(edges)
       /\ \E i \in 1..Len(edges) : edges[i] = Edge(Tx(c), conf[c][1])

\* The client's last call is an Unlock by a transaction for a resource it
\* does not hold with the type it names: held with the other type, or not
\* held at all.
BadUnlock(c) ==
    /\ "had" \in DOMAIN req[c]
    /\ req[c].open
    /\ req[c].had # req[c].mode

\* C28: Unlock with a type that differs from the recorded one, or for a
\* resource the transaction does not hold, returns an error and leaves the
\* resources of the transaction and the lock manager as they were: it never
\* releases a lock another transaction holds.
C28_BadUnlockRefused ==
    /\ [](\A c \in Clients :
            BadUnlock(c) /\ pc[c] \in {"idle", "fatal"} /\ result[c] # "none"
            => /\ result[c] \in {"nonexistent", "mismatch"}
               /\ resources[c][req[c].key] = req[c].had)
    /\ [][\A c \in Clients :
             BadUnlock(c) /\ pc[c] = "u_lm" /\ result'[c] # "none"
             => <<rwOwner, rwWriters, rwReaders, rwBlocked>>'
                   = <<rwOwner, rwWriters, rwReaders, rwBlocked>>]_vars

\* C29: LockManager.Unlock of a resource that was never locked fails with
\* the error of the nonexistent resource and does not keep lm.lmMtx: the
\* mutex is free when the call has returned, so later calls of Lock and
\* Unlock get it.
C29_UnlockGivesMutexBack ==
    /\ [](\A c \in Clients : pc[c] = "idle" => lmMtx # c)
    /\ [][\A c \in Clients :
             pc[c] = "u_lm" /\ req[c].key \notin locks /\ result'[c] # "none"
             => result'[c] = "nonexistent"]_vars

\* C31: Lock gives back every read hold of tm.tmMtx it took on every return
\* path, also for a client that has no transaction: a client whose call has
\* returned holds tm.tmMtx no more, so a Begin or a Commit that waits for
\* the readers to leave is not blocked forever.
C31_LockReleasesTmMtx ==
    \A c \in Clients : pc[c] = "idle" => tmReaders[c] = 0

\* C32: two goroutines that allocate a page of one pager at the same time
\* (GetFreePN, then GetPage, as two splits in different subtrees do) get two
\* different page numbers, and each allocation makes the file one page
\* longer.
C32_AllocDistinctPages ==
    /\ [](\A g, h \in Goroutines :
            g # h /\ thr[g].pc = "fill" /\ thr[h].pc = "fill"
            => thr[g].newPN # thr[h].newPN)
    /\ [][\A g \in Goroutines :
             thr[g].pc = "page" /\ thr'[g].pc = "fill" => Len(pages') = Len(pages) + 1]_vars

\* C33: Recover always terminates: its backward pass ends with the undo set
\* empty, it never reads before the first record of the log, and no Undo
\* waits for a lock for ever, whatever log the system has produced.
C33_RecoverTerminates == status \notin {"panic", "hung"}

(***************************************************************************)
(* The forward pass of Recover on one table.  Redo of an Edit record runs  *)
(* the statement of the record through the handlers of the database layer, *)
(* on a B+ tree or on a hash table, whatever the table holds by then.      *)
(***************************************************************************)
\* Records redone in one run.
MaxRedo == 4

RedoKeys == {1, 2, 3}
RedoVals == {1, 2}

\* HashBucket.Update and HashTable.Update: the first cell with the key.
HashTableUpdate(table, ps, key, value) ==
    LET pn == table.buckets[Hasher(key, table.depth) + 1]
        bucket == ps[pn + 1]
        at == {i \in 1..Len(bucket.entries) : bucket.entries[i].key = key}
    IN  IF at = {} THEN [pages |-> ps, err |-> TRUE]
        ELSE [pages |-> [ps EXCEPT ![pn + 1].entries[CHOOSE i \in at : \A j \in at : i <= j].value
                                      = value],
              err |-> FALSE]

\* HashBucket.Delete and HashTable.Delete: the first cell with the key goes,
\* the cells behind it move left.
HashTableDelete(table, ps, key) ==
    LET pn == table.buckets[Hasher(key, table.depth) + 1]
        bucket == ps[pn + 1]
        at == {i \in 1..Len(bucket.entries) : bucket.entries[i].key = key}
    IN  IF at = {} THEN [pages |-> ps, err |-> TRUE]
        ELSE [pages |-> [ps EXCEPT ![pn + 1].entries =
                                      RemoveAt(@, (CHOOSE i \in at : \A j \in at : i <= j) - 1)],
              err |-> FALSE]

\* Index.Find of the table ix, a B+ tree or a hash table.
IndexFind(ix, key) ==
    IF ix.kind = "btree" THEN Find(ix.ps, key) ELSE HashTableFind(ix.table, ix.ps, key)

\* db.HandleInsert: refused when Find gives an entry.
HandleInsert(ix, key, value) ==
    IF IndexFind(ix, key).found THEN [ix |-> ix, err |-> TRUE]
    ELSE IF ix.kind = "btree"
    THEN LET r == Insert(ix.ps, key, value)
         IN  [ix |-> [ix EXCEPT !.ps = r.ps], err |-> r.err # "none"]
    ELSE LET r == HashTableInsert(ix.table, ix.ps, key, value)
         IN  [ix |-> [ix EXCEPT !.ps = r.pages, !.table = r.table], err |-> r.err]

\* db.HandleUpdate.
HandleUpdate(ix, key, value) ==
    IF ix.kind = "btree"
    THEN LET r == Update(ix.ps, key, value)
         IN  [ix |-> [ix EXCEPT !.ps = r.ps], err |-> r.err # "none"]
    ELSE LET r == HashTableUpdate(ix.table, ix.ps, key, value)
         IN  [ix |-> [ix EXCEPT !.ps = r.pages], err |-> r.err]

\* db.HandleDelete.
HandleDelete(ix, key) ==
    IF ix.kind = "btree"
    THEN [ix |-> [ix EXCEPT !.ps = Delete(ix.ps, key)], err |-> FALSE]
    ELSE LET r == HashTableDelete(ix.table, ix.ps, key)
         IN  [ix |-> [ix EXCEPT !.ps = r.pages], err |-> r.err]

\* rm.Redo of an Edit record: an insert that is refused is tried as an
\* update, an update that is refused as an insert; what a delete returns is
\* what Redo returns.
RedoEdit(ix, act, key, newval) ==
    IF act = INSERT_ACTION
    THEN LET r == HandleInsert(ix, key, newval)
         IN  IF r.err THEN HandleUpdate(r.ix, key, newval) ELSE r
    ELSE IF act = UPDATE_ACTION
    THEN LET r == HandleUpdate(ix, key, newval)
         IN  IF r.err THEN HandleInsert(r.ix, key, newval) ELSE r
    ELSE HandleDelete(ix, key)

\* The table the forward pass works on.
RedoIndex == [kind |-> oracle.kind, ps |-> IF oracle.kind = "btree" THEN pages ELSE bucketPages,
              table |-> hashTable]

\* One record of the forward pass.
RedoStep(act, key, newval) ==
    \E r \in {RedoEdit(RedoIndex, act, key, newval)} :
        /\ oracle.n < MaxRedo
        /\ ret.err = FALSE
        /\ oracle' = [oracle EXCEPT !.n = @ + 1]
        /\ pages' = IF oracle.kind = "btree" THEN r.ix.ps ELSE pages
        /\ bucketPages' = IF oracle.kind = "hash" THEN r.ix.ps ELSE bucketPages
        /\ hashTable' = r.ix.table
        /\ ret' = [act |-> act, key |-> key, value |-> newval, err |-> r.err,
                   had |-> IndexFind(RedoIndex, key),
                   same |-> r.ix = RedoIndex,
                   got |-> IndexFind(r.ix, key)]
        /\ UNCHANGED <<dbVars, pagerVars, latch, thr, rwlock, hthr, xxhash, metaFile>>

RedoInsert(key, newval) == RedoStep(INSERT_ACTION, key, newval)
RedoUpdate(key, newval) == RedoStep(UPDATE_ACTION, key, newval)
RedoDelete(key) == RedoStep(DELETE_ACTION, key, 0)

\* A new table of either kind, and no record redone yet; the keys hash to
\* values that agree in their last two bits.
InitRedo ==
    /\ InitTM
    /\ InitFiles
    /\ NoLm
    /\ NoPager
    /\ \E kind \in {"btree", "hash"} :
          /\ oracle = [kind |-> kind, n |-> 0]
          /\ pages = IF kind = "btree" THEN NewTree ELSE <<>>
          /\ bucketPages = IF kind = "hash" THEN NewHashTable.pages ELSE <<>>
          /\ hashTable = IF kind = "hash" THEN NewHashTable.table ELSE <<>>
    /\ latch = <<>> /\ thr = <<>>
    /\ rwlock = <<>> /\ hthr = <<>> /\ metaFile = <<>>
    /\ xxhash = [k \in RedoKeys |-> 4 * k - 3]
    /\ ret = [act |-> "none", key |-> 0, value |-> 0, err |-> FALSE,
              had |-> [found |-> FALSE, value |-> 0], same |-> TRUE,
              got |-> [found |-> FALSE, value |-> 0]]

NextRedo ==
    \/ \E k \in RedoKeys, v \in RedoVals : RedoInsert(k, v)
    \/ \E k \in RedoKeys, v \in RedoVals : RedoUpdate(k, v)
    \/ \E k \in RedoKeys : RedoDelete(k)

SpecRedo == InitRedo /\ [][NextRedo]_vars

\* C34: the redo of an Edit record reports no error and leaves the key with
\* the new value (INSERT, UPDATE; also when the key was there, or was
\* missing) or without a value (DELETE); the redo of a DELETE of a missing
\* key leaves the table as it was.  This holds for B+ trees and hash tables.
C34_RedoIsIdempotent ==
    ret.act # "none" =>
        /\ ret.err = FALSE
        /\ ret.act \in {INSERT_ACTION, UPDATE_ACTION}
              => ret.got = [found |-> TRUE, value |-> ret.value]
        /\ ret.act = DELETE_ACTION => ~ret.got.found
        /\ ret.act = DELETE_ACTION /\ ~ret.had.found => ret.same

\* The clients with a Start record and no Commit record behind it among
\* the first n records of the log l.
ActiveAt(l, n) ==
    {c \in Clients :
        \E i \in 1..n :
            /\ l[i].t = "start" /\ l[i].id = c
            /\ \A j \in (i + 1)..n : ~(l[j].t = "commit" /\ l[j].id = c)}

\* C35: a Checkpoint record lists exactly the transactions that are active
\* when it is written, the clients with a Start record and no Commit record
\* after it; a client whose statements all ran outside a transaction is not
\* listed.
C35_CheckpointListsActive ==
    \A i \in 1..Len(log) :
        log[i].t = "checkpoint" => log[i].ids = ActiveAt(log, i - 1)

(***************************************************************************)
(* Checkpoint against the callers of the pager.  Checkpoint holds the page *)
(* table mutex and the update lock of every page of the page table from    *)
(* LockAllUpdates to UnlockAllUpdates, and flushes in between.  GetPage    *)
(* and Put take the page table mutex, page.Update takes the update lock of *)
(* its page; initPage and the copy of a node write into the page without   *)
(* any lock.                                                               *)
(***************************************************************************)
\* The frames LockAllUpdates locks: those of the pages in the page table.
TableFrames(pg) == {pg.pageTable[pn] : pn \in {q \in DOMAIN pg.pageTable : pg.pageTable[q] # 0}}

\* The bytes of the pages in memory.
PageBytes(pg) == [f \in 1..PoolFrames |-> pg.page[f].data]

\* initPage(page, nodeType): the page zeroed, but for the node type byte.
initPage(pg, f, leaf) ==
    [pg EXCEPT !.page[f].dirty = TRUE, !.page[f].data = IF leaf THEN 1 ELSE 0]

\* pager.GetPage by a caller, once it has the page table mutex.
CGetPage(pn) == ~pagerLog.ptMtx /\ pagerLog.wait = NOPAGE /\ PGetPage(pn, TRUE, TRUE)

\* page.Put by a caller, once it has the page table mutex.
CPut(pn) == ~pagerLog.ptMtx /\ pagerLog.wait = NOPAGE /\ PPut(pn)

\* page.Update by a caller, once it has the update lock of the page.
CUpdate(pn) ==
    /\ pagerLog.wait = NOPAGE
    /\ pager.pageTable[pn] \notin pagerLog.locked
    /\ PUpdate(pn)

\* initPage by a caller that holds a pin on the page: createLeafNode,
\* createInternalNode and the new root of Insert.
CInitPage(pn, leaf) ==
    /\ pagerLog.wait = NOPAGE
    /\ pagerLog.pins[pn] > 0
    /\ pager' = initPage(pager, pager.pageTable[pn], leaf)
    /\ pagerRet' = [NoPagerRet EXCEPT !.op = "init", !.pn = pn]
    /\ UNCHANGED <<dbVars, btVars, hashVars, pagerFile, pagerLog>>

\* node.copy(toCopy) up to its first page.Update: the bytes of the page
\* from go to the page to.
CCopy(to, from) ==
    /\ pagerLog.wait = NOPAGE
    /\ to # from
    /\ pagerLog.pins[to] > 0 /\ pagerLog.pins[from] > 0
    /\ pager' = [pager EXCEPT !.page[pager.pageTable[to]].data =
                                  pager.page[pager.pageTable[from]].data]
    /\ pagerRet' = [NoPagerRet EXCEPT !.op = "copy", !.pn = to]
    /\ pagerLog' = [pagerLog EXCEPT !.wait = to]
    /\ UNCHANGED <<dbVars, btVars, hashVars, pagerFile>>

\* node.copy from there: updateNumKeys and setRightSibling write, through
\* page.Update, the numbers the copy has brought along.
CCopyUpdate ==
    /\ pagerLog.wait # NOPAGE
    /\ pager.pageTable[pagerLog.wait] \notin pagerLog.locked
    /\ pager' = [pager EXCEPT !.page[pager.pageTable[pagerLog.wait]].dirty = TRUE]
    /\ pagerRet' = [NoPagerRet EXCEPT !.op = "copied", !.pn = pagerLog.wait]
    /\ pagerLog' = [pagerLog EXCEPT !.wait = NOPAGE]
    /\ UNCHANGED <<dbVars, btVars, hashVars, pagerFile>>

\* Checkpoint: pager.LockAllUpdates().
CkLockAllUpdates ==
    /\ pagerLog.ck = "idle"
    /\ ~pagerLog.ptMtx
    /\ pagerLog' = [pagerLog EXCEPT !.ck = "locked", !.ptMtx = TRUE,
                                    !.locked = TableFrames(pager)]
    /\ pagerRet' = [NoPagerRet EXCEPT !.op = "lockall"]
    /\ UNCHANGED <<dbVars, btVars, hashVars, pager, pagerFile>>

\* Checkpoint: pager.FlushAllPages().
CkFlushAllPages ==
    /\ pagerLog.ck = "locked"
    /\ LET r == FlushAllPages(pager, pagerFile, TRUE)
       IN  /\ pager' = r.pager
           /\ pagerFile' = r.file
    /\ pagerLog' = [pagerLog EXCEPT !.ck = "flushed"]
    /\ pagerRet' = [NoPagerRet EXCEPT !.op = "flushall"]
    /\ UNCHANGED <<dbVars, btVars, hashVars>>

\* Checkpoint: the deferred pager.UnlockAllUpdates().
CkUnlockAllUpdates ==
    /\ pagerLog.ck = "flushed"
    /\ pagerLog' = [pagerLog EXCEPT !.ck = "idle", !.ptMtx = FALSE, !.locked = {}]
    /\ pagerRet' = [NoPagerRet EXCEPT !.op = "unlockall"]
    /\ UNCHANGED <<dbVars, btVars, hashVars, pager, pagerFile>>

InitCkpt ==
    /\ InitTM
    /\ InitFiles
    /\ NoLm
    /\ pages = <<>> /\ latch = <<>> /\ thr = <<>> /\ oracle = <<>> /\ ret = <<>>
    /\ NoHash
    /\ pager = NewPager
    /\ pagerFile = <<>>
    /\ pagerRet = NoPagerRet
    /\ pagerLog = NoPagerLog @@ [ck |-> "idle", ptMtx |-> FALSE, locked |-> {},
                                 wait |-> NOPAGE]

\* The callers split a root: they work on page 0 and on the page of the
\* node that takes the entries of the old root.
NextCkpt ==
    \/ \E pn \in {ROOT_PN, 1} : CGetPage(pn)
    \/ \E pn \in {ROOT_PN, 1} : CPut(pn)
    \/ \E pn \in {ROOT_PN, 1} : CUpdate(pn)
    \/ CInitPage(1, TRUE) \/ CInitPage(ROOT_PN, FALSE)
    \/ CCopy(1, ROOT_PN)
    \/ CCopyUpdate
    \/ CkLockAllUpdates
    \/ CkFlushAllPages
    \/ CkUnlockAllUpdates

SpecCkpt == InitCkpt /\ [][NextCkpt]_vars

\* C36: from the return of LockAllUpdates to the call of UnlockAllUpdates
\* no byte of a page in memory changes, whatever the other threads do.
C36_NoChangeWhileLocked ==
    [][pagerLog.ck # "idle" /\ pagerLog'.ck # "idle" => PageBytes(pager') = PageBytes(pager)]_vars

\* C37: the old value in the Edit record of an update or a delete is the
\* value the key holds when the statement changes the table under its write
\* lock, also when another transaction changed the key after the record was
\* written.
C37_OldValIsCurrent ==
    [][\A c \in Clients :
          /\ hpc[c] = "edit" /\ hpc'[c] # "edit"
          /\ lastApplied'[c] # lastApplied[c]
          /\ c \in transactions /\ resources[c][hreq[c].key] = W_LOCK
          /\ hreq[c].act \in {UPDATE_ACTION, DELETE_ACTION}
          => hreq[c].old = mem.rows[hreq[c].key]]_vars

(***************************************************************************)
(* Inserts of a key the hash table holds already.  HashTable.Insert and    *)
(* HashBucket.Insert do not look for the key; db.HandleInsert does, with a *)
(* Find that ends before Insert starts, so that two connections that       *)
(* insert one key may both come to call Insert.                            *)
(***************************************************************************)
\* The cells of the table that hold the key.
CellsOf(k) ==
    {<<pn, i>> \in (1..Len(bucketPages)) \X (1..BUCKETSIZE) :
        i <= Len(bucketPages[pn].entries) /\ bucketPages[pn].entries[i].key = k}

\* A goroutine calls Insert with a key that is in the table once.
HCallInsertAgain(g, k) ==
    /\ hthr[g].pc = "idle"
    /\ k \in DOMAIN xxhash
    /\ Cardinality(CellsOf(k)) = 1
    /\ hthr' = [hthr EXCEPT ![g] = [IdleHash EXCEPT !.pc = "wlock", !.op = "insert",
                                       !.key = k, !.value = HValue(k),
                                       !.had = TRUE, !.ins = hthr[g].ins]]
    /\ UNCHANGED <<dbVars, pagerVars, btVars, metaFile, hashTable, bucketPages, rwlock, xxhash>>

\* The run is followed up to the first Insert that returns an error.
NoneFailed == \A h \in Goroutines : ~hthr[h].err

NextDup ==
    \E g \in Goroutines :
        \/ \E k \in HKeys(g), h \in HashVals : NoneFailed /\ HCallInsert(g, k, h)
        \/ \E k \in HKeys("g1") \cup HKeys("g2") : NoneFailed /\ HCallInsertAgain(g, k)
        \/ NoneFailed /\ HWLock(g)
        \/ NoneFailed /\ HInsert(g)

SpecDup == InitHash /\ [][NextDup]_vars

\* C38: every Insert ends with its bucket split: the recursion of Split
\* stops by itself after finitely many splits and doublings of the
\* directory, whatever the bucket holds, and not because it has used up the
\* pages of the pager.
C38_SplitEnds == \A g \in Goroutines : ~hthr[g].err

(***************************************************************************)
(* The latches of the bucket pages.  GetBucket and GetBucketByPN take the  *)
(* read or the write latch of the page they return; a caller is followed   *)
(* from one call of the hash index to the next, and stays blocked in a     *)
(* call whose latch it cannot get.  latch holds, per bucket page, the      *)
(* readers inside page.rwlock and whether a writer is inside.              *)
(***************************************************************************)
\* Calls of Print and PrintPN in one run.
MaxPrints == 2

LatchKeys == {1, 2, 3}
LatchVals == {1, 2}

FreeLatch == [readers |-> 0, writer |-> FALSE]

\* The page of the bucket that the key hashes to.
BucketPN(k) == hashTable.buckets[Hasher(k, hashTable.depth) + 1]

\* The latches after a call that left them as latches(l) says; pages that a
\* Split added come with a free latch.
Latched(l) ==
    [i \in 1..Len(bucketPages') |-> IF i <= Len(l) THEN l[i] ELSE FreeLatch]

\* The caller is back from the call op.
Back(op, k) == [hthr EXCEPT !.pc = "idle", !.op = op, !.key = k]

\* The caller can go no further in the call op: the latch is not free.
Stuck(op, k) ==
    /\ hthr' = [hthr EXCEPT !.pc = "blocked", !.op = op, !.key = k]
    /\ UNCHANGED <<hashTable, bucketPages, latch>>

\* HashTable.Find: GetBucket(hash, READ_LOCK), and the deferred RUnlock.
HtFind(k) ==
    /\ hthr.pc = "idle"
    /\ IF latch[BucketPN(k) + 1].writer THEN Stuck("find", k)
       ELSE /\ hthr' = Back("find", k)
            /\ UNCHANGED <<hashTable, bucketPages, latch>>
    /\ UNCHANGED <<dbVars, pagerVars, pages, thr, oracle, ret, rwlock, xxhash, metaFile>>

\* A write call: GetBucket(hash, WRITE_LOCK), the change, the deferred WUnlock.
HtWrite(op, k, r) ==
    /\ hthr.pc = "idle"
    /\ IF latch[BucketPN(k) + 1] # FreeLatch THEN Stuck(op, k)
       ELSE /\ hashTable' = r.table
            /\ bucketPages' = r.pages
            /\ latch' = Latched(latch)
            /\ hthr' = Back(op, k)
    /\ UNCHANGED <<dbVars, pagerVars, pages, thr, oracle, ret, rwlock, xxhash, metaFile>>

\* HashTable.Insert of a key that Find does not find.
HtInsert(k, v) ==
    /\ ~HashTableFind(hashTable, bucketPages, k).found
    /\ HtWrite("insert", k, HashTableInsert(hashTable, bucketPages, k, v))

\* HashTable.Update.
HtUpdate(k, v) ==
    HtWrite("update", k,
            [table |-> hashTable, pages |-> HashTableUpdate(hashTable, bucketPages, k, v).pages])

\* HashTable.Delete.
HtDelete(k) ==
    HtWrite("delete", k,
            [table |-> hashTable, pages |-> HashTableDelete(hashTable, bucketPages, k).pages])

\* HashTable.Select: GetBucketByPN(i, READ_LOCK) for every page, the
\* RUnlock of each deferred to the return.
HtSelect ==
    /\ hthr.pc = "idle"
    /\ IF \E i \in 1..Len(latch) : latch[i].writer THEN Stuck("select", 0)
       ELSE /\ hthr' = Back("select", 0)
            /\ UNCHANGED <<hashTable, bucketPages, latch>>
    /\ UNCHANGED <<dbVars, pagerVars, pages, thr, oracle, ret, rwlock, xxhash, metaFile>>

\* The slots of the directory that point to page pn.
SlotsOf(pn) == {i \in 1..Len(hashTable.buckets) : hashTable.buckets[i] = pn}

\* HashTable.Print: for every slot GetBucket(i, READ_LOCK), bucket.RLock(),
\* bucket.Print, bucket.RUnlock().
HtPrint ==
    /\ hthr.pc = "idle"
    /\ hthr.prints < MaxPrints
    /\ IF \E i \in 1..Len(latch) : latch[i].writer THEN Stuck("print", 0)
       ELSE /\ latch' = [i \in 1..Len(latch) |->
                            [latch[i] EXCEPT !.readers = @ + (2 - 1) * Cardinality(SlotsOf(i - 1))]]
            /\ hthr' = [Back("print", 0) EXCEPT !.prints = @ + 1]
            /\ UNCHANGED <<hashTable, bucketPages>>
    /\ UNCHANGED <<dbVars, pagerVars, pages, thr, oracle, ret, rwlock, xxhash, metaFile>>

\* HashTable.PrintPN: GetBucketByPN(pn, READ_LOCK), bucket.RLock(),
\* bucket.Print, bucket.RUnlock().
HtPrintPN(pn) ==
    /\ hthr.pc = "idle"
    /\ hthr.prints < MaxPrints
    /\ pn < Len(bucketPages)
    /\ IF latch[pn + 1].writer THEN Stuck("printpn", pn)
       ELSE /\ latch' = [latch EXCEPT ![pn + 1].readers = @ + 2 - 1]
            /\ hthr' = [Back("printpn", pn) EXCEPT !.prints = @ + 1]
            /\ UNCHANGED <<hashTable, bucketPages>>
    /\ UNCHANGED <<dbVars, pagerVars, pages, thr, oracle, ret, rwlock, xxhash, metaFile>>

InitBucketLatch ==
    /\ InitTM
    /\ InitFiles
    /\ NoLm
    /\ NoPager
    /\ pages = <<>> /\ thr = <<>> /\ oracle = <<>> /\ ret = <<>>
    /\ hashTable = NewHashTable.table
    /\ bucketPages = NewHashTable.pages
    /\ latch = [i \in 1..Len(NewHashTable.pages) |-> FreeLatch]
    /\ rwlock = [writer |-> "none", readers |-> {}]
    /\ hthr = [pc |-> "idle", op |-> "none", key |-> 0, prints |-> 0]
    /\ xxhash = [k \in LatchKeys |-> 4 * k - 3]
    /\ metaFile = <<>>

NextBucketLatch ==
    \/ \E k \in LatchKeys : HtFind(k)
    \/ \E k \in LatchKeys, v \in LatchVals : HtInsert(k, v)
    \/ \E k \in LatchKeys, v \in LatchVals : HtUpdate(k, v)
    \/ \E k \in LatchKeys : HtDelete(k)
    \/ HtSelect
    \/ HtPrint
    \/ \E pn \in 0..(NUMPAGES - 1) : HtPrintPN(pn)

SpecBucketLatch == InitBucketLatch /\ [][NextBucketLatch]_vars

\* C39: a call of the hash index that has returned has released every
\* bucket latch it took, and no call is blocked on a bucket latch.
C39_LatchesReleased ==
    /\ hthr.pc # "blocked"
    /\ \A i \in 1..Len(latch) : latch[i] = FreeLatch

(***************************************************************************)
(* The text of the log (part_005).  A line is a sequence of characters; a  *)
(* uuid, which fills 36 of them, and a word of letters stand here as one   *)
(* element each, the sign and the digits of a number as one element per    *)
(* character.  toString prints a record with fmt.Sprintf, FromString       *)
(* matches the line against the regular expressions of the source, in      *)
(* their order, and builds the record from the groups of the first match.  *)
(***************************************************************************)
Ch(c) == [k |-> "ch", v |-> c]
Word(w) == [k |-> "word", v |-> w]
Uuid(id) == [k |-> "uuid", v |-> id]

DigitChars == <<"0", "1", "2", "3", "4", "5", "6", "7", "8", "9">>
IsDigit(tok) == tok.k = "ch" /\ \E d \in 1..10 : DigitChars[d] = tok.v
DigitVal(tok) == (CHOOSE d \in 1..10 : DigitChars[d] = tok.v) - 1

\* The verb %v of an int64 that is not negative: its decimal digits.
RECURSIVE FormatUint(_)
FormatUint(n) ==
    IF n < 10 THEN <<Ch(DigitChars[n + 1])>>
    ELSE Append(FormatUint(n \div 10), Ch(DigitChars[(n % 10) + 1]))

\* The verb %v of an int64: a minus sign in front of a negative number.
FormatInt(n) == IF n < 0 THEN <<Ch("-")>> \o FormatUint(-n) ELSE FormatUint(n)

\* strconv.Atoi of a group that \d+ has matched.
RECURSIVE Atoi(_)
Atoi(ds) ==
    IF ds = <<>> THEN 0
    ELSE 10 * Atoi(SubSeq(ds, 1, Len(ds) - 1)) + DigitVal(ds[Len(ds)])

\* The structs of the records.
TableLog(tblType, tblName) == [t |-> "table", tblType |-> tblType, tblName |-> tblName]
EditLog(id, tablename, action, key, oldval, newval) ==
    [t |-> "edit", id |-> id, tablename |-> tablename, action |-> action,
     key |-> key, oldval |-> oldval, newval |-> newval]
StartLog(id) == [t |-> "start", id |-> id]
CommitLog(id) == [t |-> "commit", id |-> id]
CheckpointLog(ids) == [t |-> "checkpoint", ids |-> ids]

Sep == <<Ch(","), Ch(" ")>>
Open == <<Ch("<"), Ch(" ")>>
Close == <<Ch(" "), Ch(">")>>

\* strings.Join(idStrings, ", ")
RECURSIVE JoinIds(_)
JoinIds(ids) ==
    IF Len(ids) = 1 THEN <<Uuid(ids[1])>>
    ELSE <<Uuid(ids[1])>> \o Sep \o JoinIds(Tail(ids))

\* toString of each kind of record.
toString(r) ==
    IF r.t = "table"
    THEN Open \o <<Word("create"), Ch(" "), Word(r.tblType), Ch(" "), Word("table"),
                   Ch(" "), Word(r.tblName)>> \o Close \o <<Ch("\n")>>
    ELSE IF r.t = "edit"
    THEN Open \o <<Uuid(r.id)>> \o Sep \o <<Word(r.tablename)>> \o Sep
              \o <<Word(r.action)>> \o Sep \o FormatInt(r.key) \o Sep
              \o FormatInt(r.oldval) \o Sep \o FormatInt(r.newval) \o Close \o <<Ch("\n")>>
    ELSE IF r.t = "start"
    THEN Open \o <<Uuid(r.id), Ch(" "), Word("start")>> \o Close \o <<Ch("\n")>>
    ELSE IF r.t = "commit"
    THEN Open \o <<Uuid(r.id), Ch(" "), Word("commit")>> \o Close \o <<Ch("\n")>>
    ELSE IF r.ids = <<>>
    THEN Open \o <<Word("checkpoint")>> \o Close \o <<Ch("\n")>>
    ELSE Open \o JoinIds(r.ids) \o <<Ch(" "), Word("checkpoint")>> \o Close \o <<Ch("\n")>>

\* The parts of the regular expressions: a character or word as it stands,
\* the uuid pattern, \w+, \d+ and UPDATE|INSERT|DELETE.
Lit(tok) == [p |-> "lit", v |-> tok]
Lits(toks) == [i \in 1..Len(toks) |-> Lit(toks[i])]
PUuid == [p |-> "uuid", v |-> Ch("")]
PWord == [p |-> "word", v |-> Ch("")]
PNum == [p |-> "num", v |-> Ch("")]
PAction == [p |-> "action", v |-> Ch("")]

\* The end of the longest run of elements from s[i] on that \w, or \d when
\* digits is set, matches: the index behind it.
RECURSIVE RunEnd(_, _, _)
RunEnd(s, i, digits) ==
    IF i <= Len(s) /\ (IsDigit(s[i]) \/ (~digits /\ s[i].k = "word"))
    THEN RunEnd(s, i + 1, digits) ELSE i

\* The match of the pattern pat at s[i]: whether there is one, and its groups.
RECURSIVE MatchAt(_, _, _, _)
MatchAt(pat, s, i, groups) ==
    IF pat = <<>> THEN [ok |-> TRUE, groups |-> groups]
    ELSE IF i > Len(s) THEN [ok |-> FALSE, groups |-> <<>>]
    ELSE LET e == Head(pat)
             run == RunEnd(s, i, e.p = "num")
         IN  IF e.p = "lit"
             THEN IF s[i] = e.v THEN MatchAt(Tail(pat), s, i + 1, groups)
                  ELSE [ok |-> FALSE, groups |-> <<>>]
             ELSE IF e.p = "uuid"
             THEN IF s[i].k = "uuid"
                  THEN MatchAt(Tail(pat), s, i + 1, Append(groups, <<s[i]>>))
                  ELSE [ok |-> FALSE, groups |-> <<>>]
             ELSE IF e.p = "action"
             THEN IF s[i] \in {Word(INSERT_ACTION), Word(UPDATE_ACTION), Word(DELETE_ACTION)}
                  THEN MatchAt(Tail(pat), s, i + 1, Append(groups, <<s[i]>>))
                  ELSE [ok |-> FALSE, groups |-> <<>>]
             ELSE IF run > i
                  THEN MatchAt(Tail(pat), s, run, Append(groups, SubSeq(s, i, run - 1)))
                  ELSE [ok |-> FALSE, groups |-> <<>>]

\* regexp.MatchString and FindStringSubmatch: the leftmost match in s.
MatchString(pat, s) == \E i \in 1..Len(s) : MatchAt(pat, s, i, <<>>).ok
FindStringSubmatch(pat, s) ==
    MatchAt(pat, s, CHOOSE i \in 1..Len(s) :
                        /\ MatchAt(pat, s, i, <<>>).ok
                        /\ \A j \in 1..(i - 1) : ~MatchAt(pat, s, j, <<>>).ok,
            <<>>).groups

tableExp ==
    Lits(Open \o <<Word("create"), Ch(" ")>>) \o <<PWord>> \o
    Lits(<<Ch(" "), Word("table"), Ch(" ")>>) \o <<PWord>> \o Lits(Close)
editExp ==
    Lits(Open) \o <<PUuid>> \o Lits(Sep) \o <<PWord>> \o Lits(Sep) \o <<PAction>> \o
    Lits(Sep) \o <<PNum>> \o Lits(Sep) \o <<PNum>> \o Lits(Sep) \o <<PNum>> \o Lits(Close)
startExp == Lits(Open) \o <<PUuid>> \o Lits(<<Ch(" "), Word("start")>> \o Close)
commitExp == Lits(Open) \o <<PUuid>> \o Lits(<<Ch(" "), Word("commit")>> \o Close)

\* "< (uuid,?\s)*checkpoint >" from s[i] on, behind "< ".
RECURSIVE checkpointTail(_, _)
checkpointTail(s, i) ==
    \/ MatchAt(Lits(<<Word("checkpoint")>> \o Close), s, i, <<>>).ok
    \/ /\ i + 1 <= Len(s) /\ s[i].k = "uuid"
       /\ \/ s[i + 1] = Ch(" ") /\ checkpointTail(s, i + 2)
          \/ /\ i + 2 <= Len(s) /\ s[i + 1] = Ch(",") /\ s[i + 2] = Ch(" ")
             /\ checkpointTail(s, i + 3)

checkpointMatch(s) ==
    \E i \in 1..Len(s) : MatchAt(Lits(Open), s, i, <<>>).ok /\ checkpointTail(s, i + 2)

\* uuidExp.FindAllString(s, -1)
FindAllUuids(s) ==
    LET found == SelectSeq(s, LAMBDA tok : tok.k = "uuid")
    IN  [i \in 1..Len(found) |-> found[i].v]

ParseError == [t |-> "error"]

\* FromString: the first expression that matches decides.
FromString(s) ==
    IF MatchString(tableExp, s)
    THEN LET g == FindStringSubmatch(tableExp, s)
         IN  [t |-> "table", tblType |-> g[1], tblName |-> g[2]]
    ELSE IF MatchString(editExp, s)
    THEN LET g == FindStringSubmatch(editExp, s)
         IN  [t |-> "edit", id |-> g[1][1].v, tablename |-> g[2], action |-> g[3][1].v,
              key |-> Atoi(g[4]), oldval |-> Atoi(g[5]), newval |-> Atoi(g[6])]
    ELSE IF MatchString(startExp, s)
    THEN StartLog(FindAllUuids(s)[1])
    ELSE IF MatchString(commitExp, s)
    THEN CommitLog(FindAllUuids(s)[1])
    ELSE IF checkpointMatch(s)
    THEN CheckpointLog(FindAllUuids(s))
    ELSE ParseError

\* The record with the names that \w+ has matched as the words they are.
Named(r) ==
    IF r.t = "table"
    THEN [r EXCEPT !.tblType = IF Len(@) = 1 THEN @[1].v ELSE @,
                   !.tblName = IF Len(@) = 1 THEN @[1].v ELSE @]
    ELSE IF r.t = "edit"
    THEN [r EXCEPT !.tablename = IF Len(@) = 1 THEN @[1].v ELSE @]
    ELSE r

\* Keys and values of the records, negative ones and ones of two digits
\* among them.
LogInts == {-12, -1, 0, 7, 12}

LogRecords ==
    {TableLog(ty, "t") : ty \in {"btree", "hash"}}
    \cup {EditLog(id, "t", a, k, o, n) :
             id \in Clients, a \in {INSERT_ACTION, UPDATE_ACTION, DELETE_ACTION},
             k \in LogInts, o \in {0, 7}, n \in {0, 12}}
    \cup {EditLog("A", "t", UPDATE_ACTION, 7, o, n) : o \in LogInts, n \in LogInts}
    \cup {StartLog(id) : id \in Clients}
    \cup {CommitLog(id) : id \in Clients}
    \cup {CheckpointLog(ids) : ids \in {<<>>, <<"A">>, <<"A", "B">>, <<"B", "A">>}}

\* writeToBuffer(log.toString()): the record goes to the log as text.
LogToString ==
    /\ ret.st = "record"
    /\ ret' = [ret EXCEPT !.st = "text", !.text = toString(oracle)]
    /\ UNCHANGED <<dbVars, pagerVars, hashVars, pages, latch, thr, oracle>>

\* Recover reads the line back.
LogFromString ==
    /\ ret.st = "text"
    /\ ret' = [ret EXCEPT !.st = "parsed", !.parsed = Named(FromString(ret.text))]
    /\ UNCHANGED <<dbVars, pagerVars, hashVars, pages, latch, thr, oracle>>

InitLogText ==
    /\ InitTM
    /\ InitFiles
    /\ NoLm
    /\ NoPager
    /\ NoHash
    /\ pages = <<>> /\ latch = <<>> /\ thr = <<>>
    /\ oracle \in LogRecords
    /\ ret = [st |-> "record", text |-> <<>>, parsed |-> ParseError]

NextLogText == LogToString \/ LogFromString

SpecLogText == InitLogText /\ [][NextLogText]_vars

\* C40: FromString(toString(r)) = r for every Table, Edit, Start, Commit and
\* Checkpoint record, whatever the sign of its key and values.
C40_LogRoundTrip == ret.st = "parsed" => ret.parsed = oracle

=============================================================================
